---- MODULE Spec2Model ----
(***************************************************************************)
(* A model of the skill-builder toolkit's two programs with logic:         *)
(*   - scripts/validate-skill.ts  (the skill validator), and               *)
(*   - scripts/generate-subagent.ts (the subagent generator).              *)
(*                                                                         *)
(* A file's content is a non-empty sequence of lines (content.split('\n'));*)
(* a line is one of a fixed alphabet of concrete texts, and every regular  *)
(* expression or substring test of the source is a table over that         *)
(* alphabet holding the result of the test on the text.                    *)
(***************************************************************************)
EXTENDS Integers, Sequences, FiniteSets, TLC

(***************************************************************************)
(* Bounds of the model.                                                    *)
(***************************************************************************)
\* longest file of the documentation-window family of inputs
MaxLines == 7
\* longest file of the mixed-pattern family of inputs
MaxShortLines == 3
\* longest SKILL.md of the directory family of inputs
MaxSkillLines == 4
\* most plain lines between the parts of a documented example
MaxGap == 3
\* longest description, in tokens, of the description family of inputs
MaxDesc == 7
\* longest document of the document-shape family of inputs
MaxDocLines == 4
\* most plain lines between a project-specific term and a marker
MaxLeakGap == 5
\* longest source file of the environment-variable family of inputs
MaxEnvLines == 2
\* longest body of the long-document family of inputs
MaxBodyLines == 3
\* longest .env.schema of the schema family of inputs
MaxSchemaLines == 2

(***************************************************************************)
(* The alphabet of lines.                                                  *)
(***************************************************************************)
PLAIN == "plain text"
MARK == "# NEVER do this"
ECHO == "echo $LINEAR_API_KEY"
ECHOSK == "echo $SECRET_KEY"
CAT == "cat .env"
ECHOMARK == "echo $API_KEY # NEVER"
FM == "---"
\* a fence of a fenced code block
FENCE == "~~~"
NAME == "name: demo"
DESC == "description: This skill should be used when asked"
DESCSHORT == "description: Demo helper"
ACME == "Acme deployment"
EXAMPLE == "<!-- Example -->"
EXAMPLECODE == "// Example: usage"
TODO == "TODO: later"
HARD == "hardcoded value"
SKREAL == "const k = 'sk-live123'"
SKPH == "const ex = 'sk-xxx'"
GHPREAL == "const g = 'ghp_live123'"
SKTHROW == "throw new Error('sk- key missing')"
ENVKEY == "const a = process.env.API_KEY"
ENVPORT == "const p = process.env.PORT"
DOCKEY == "Requires API_KEY"
DOCPORT == "Requires PORT"
VARLOCK == "Uses varlock"
SCHEMASENS == "API_KEY= # @sensitive"
SCHEMAKEY == "API_KEY="
SCHEMAOTHER == "OTHER_TOKEN= # @sensitive"
\* the reference is back-quoted in the file: See (backquote)scripts/run.ts(backquote)
REFRUN == "See scripts/run.ts"
FNACME == "function runAcme() {}"
\* stands for one line of 1500 words
BLOCK == "lorem ipsum (1500 words)"
\* stands for one line of 1000 words
KILO == "lorem ipsum (1000 words)"

(***************************************************************************)
(* validate-skill.ts: the pattern lists, as tables over the alphabet.      *)
(***************************************************************************)
\* The five project-specific patterns, by position in the list.
PROJECT_SPECIFIC_PATTERNS == 1..5

\* The first match (matches[0]) of project-specific pattern p in a line, or "".
ProjectMatch(p, line) ==
  IF p = 4 /\ line \in {ACME, FNACME} THEN "Acme" ELSE ""

\* The two warning patterns, by position; their messages.
WARNING_PATTERNS ==
  << "Contains hardcoded - may indicate config issues",
     "Contains TODO/FIXME/HACK comments" >>

WarningMatch(p, line) ==
  \/ p = 1 /\ line = HARD
  \/ p = 2 /\ line = TODO

\* The six secret-exposure patterns, by position; their messages.
SECRET_EXPOSURE_PATTERNS ==
  << "Echo command exposes secret KEY variable",
     "Echo command exposes SECRET variable",
     "Echo command exposes TOKEN variable",
     "cat .env exposes all secrets",
     "printenv | grep may expose secrets",
     "config show commands often expose secrets" >>

SecretMatch(p, line) ==
  \/ p = 1 /\ line \in {ECHO, ECHOSK, ECHOMARK}
  \/ p = 2 /\ line = ECHOSK
  \/ p = 4 /\ line = CAT

\* Some DOCUMENTATION_CONTEXT_PATTERNS member matches the line.
DOCUMENTATION_CONTEXT_PATTERNS(line) ==
  line \in {MARK, ECHOMARK, EXAMPLE, EXAMPLECODE}

\* Some PLACEHOLDER_KEY_PATTERNS member matches the line.
PLACEHOLDER_KEY_PATTERNS(line) == line \in {SKPH, SKTHROW}

\* The matches of keyPattern in a line, in order (each match[0]).
KeyMatches(line) ==
  IF line \in {SKREAL, SKPH, SKTHROW} THEN << "'sk-" >>
  ELSE IF line = GHPREAL THEN << "'ghp_" >>
  ELSE << >>

\* line.includes(text) for the texts the validator looks for.
Includes(line, text) ==
  CASE text = "name:" -> line = NAME
    [] text = "description:" -> line \in {DESC, DESCSHORT}
    [] text = "This skill should be used when" -> line = DESC
    [] text = "<!-- Example" -> line = EXAMPLE
    [] text = "// Example:" -> line = EXAMPLECODE
    [] text = "API_KEY" ->
         line \in {ECHO, ECHOMARK, ENVKEY, DOCKEY, SCHEMASENS, SCHEMAKEY}
    [] text = "PORT" -> line \in {ENVPORT, DOCPORT}
    [] text = "varlock" -> line = VARLOCK
    [] text = "@sensitive" -> line \in {SCHEMASENS, SCHEMAOTHER}
    [] text = "'sk-" -> line \in {SKREAL, SKPH, SKTHROW}
    [] text = "'ghp_" -> line = GHPREAL
    [] OTHER -> FALSE

\* line.startsWith('---')
StartsWithDashes(line) == line = FM

\* The names process.env.NAME of a line, in order of occurrence.
EnvRefs(line) ==
  IF line = ENVKEY THEN << "API_KEY" >>
  ELSE IF line = ENVPORT THEN << "PORT" >>
  ELSE << >>

\* /KEY|SECRET|TOKEN|PASSWORD|CREDENTIAL|AUTH/i.test(varName)
SensitiveName(varName) == varName = "API_KEY"

\* The back-quoted references/, scripts/ or examples/ paths of a line.
ReferencedFiles(line) ==
  IF line = REFRUN THEN << << "scripts", "run.ts" >> >> ELSE << >>

\* /function\s+\w*(Skillsmith|MyProject|Acme)\w*/.test(line)
FunctionNameMatch(line) == line = FNACME

\* line.split(/\s+/).length of a line of the alphabet
Words(line) ==
  CASE line = BLOCK -> 1500
    [] line = KILO -> 1000
    [] line \in {FM, FENCE, SCHEMAKEY} -> 1
    [] line \in {MARK, ECHOMARK, SKREAL, SKPH, GHPREAL, ENVKEY, ENVPORT} -> 4
    [] line = DESC -> 8
    [] line = SKTHROW -> 5
    [] line \in {DESCSHORT, EXAMPLE, EXAMPLECODE, SCHEMASENS, SCHEMAOTHER, FNACME} -> 3
    [] OTHER -> 2

\* item.endsWith(ext) for the file names of the model
EndsWith(name, ext) ==
  CASE ext = ".md" -> name \in {"SKILL.md", "notes.md"}
    [] ext = ".ts" -> name = "run.ts"
    [] ext = ".js" -> name = "lib.js"
    [] OTHER -> FALSE

(***************************************************************************)
(* Sequences.                                                              *)
(***************************************************************************)
Max(a, b) == IF a >= b THEN a ELSE b
Min(a, b) == IF a <= b THEN a ELSE b

RECURSIVE Flatten(_)
Flatten(ss) == IF ss = << >> THEN << >> ELSE Head(ss) \o Flatten(Tail(ss))

RECURSIVE SumWords(_)
SumWords(lines) ==
  IF lines = << >> THEN 0 ELSE Words(Head(lines)) + SumWords(Tail(lines))

\* a list that keeps every repetition
DedupKeepAll(s) == s

\* the elements of a sequence, each once, in order of first occurrence
\* (the iteration order of a Set filled by add)
RECURSIVE Dedup(_)
Dedup(s) ==
  IF s = << >> THEN << >>
  ELSE LET r == Dedup(SubSeq(s, 1, Len(s) - 1))
           x == s[Len(s)]
       IN IF \E i \in 1..Len(r) : r[i] = x THEN r ELSE Append(r, x)

SeqsUpTo(S, n) == UNION { [1..k -> S] : k \in 1..n }

(***************************************************************************)
(* The file system under the validated path: a tree of entries.            *)
(***************************************************************************)
File(name, content) ==
  [name |-> name, isDir |-> FALSE, content |-> content, children |-> << >>]
Dir(name, children) ==
  [name |-> name, isDir |-> TRUE, content |-> << >>, children |-> children]

\* fs.existsSync of a path below the root
RECURSIVE existsSync(_, _)
existsSync(entries, path) ==
  /\ path # << >>
  /\ \E i \in 1..Len(entries) :
       /\ entries[i].name = Head(path)
       /\ \/ Len(path) = 1
          \/ entries[i].isDir /\ existsSync(entries[i].children, Tail(path))

\* fs.readFileSync of an entry directly below the root
readFileSync(entries, name) ==
  LET i == CHOOSE i \in 1..Len(entries) : entries[i].name = name
  IN entries[i].content

(***************************************************************************)
(* validate-skill.ts: isDocumentationContext and isPlaceholderKey.         *)
(***************************************************************************)
contextWindow == 5

\* a window that is the matched line alone
isDocumentationContextSameLine(lines, lineIndex) ==
  DOCUMENTATION_CONTEXT_PATTERNS(lines[lineIndex + 1])

\* lineIndex counts from 0, as in the source; lines.slice(start, end)
\* holds the lines with index start .. end - 1.
isDocumentationContext(lines, lineIndex) ==
  LET start == Max(0, lineIndex - contextWindow)
      end == Min(Len(lines), lineIndex + contextWindow)
  IN \E k \in start..(end - 1) : DOCUMENTATION_CONTEXT_PATTERNS(lines[k + 1])

isPlaceholderKey(line) == PLACEHOLDER_KEY_PATTERNS(line)

(***************************************************************************)
(* A finding: the file it names (<< >> when the message names none), the   *)
(* message, and the text interpolated into the message.                    *)
(***************************************************************************)
Finding(file, msg, arg) == [file |-> file, msg |-> msg, arg |-> arg]

ValidationResult(errors, warnings) ==
  [passed |-> errors = << >>, errors |-> errors, warnings |-> warnings]

(***************************************************************************)
(* validate-skill.ts: validateSkillStructure.                              *)
(***************************************************************************)
\* content.match(/^---\n([\s\S]*?)\n---/): the index (from 1) of the line
\* that closes the front-matter, or 0 when there is no match.
FrontmatterClose(lines) ==
  IF lines[1] = FM /\ \E k \in 3..Len(lines) : StartsWithDashes(lines[k])
  THEN CHOOSE k \in 3..Len(lines) :
         /\ StartsWithDashes(lines[k])
         /\ \A j \in 3..(k - 1) : ~StartsWithDashes(lines[j])
  ELSE 0

\* content.replace(/^---[\s\S]*?---/, '').split(/\s+/).length
BodyWordCount(lines) ==
  IF StartsWithDashes(lines[1]) /\ \E k \in 2..Len(lines) : StartsWithDashes(lines[k])
  THEN LET k == CHOOSE k \in 2..Len(lines) :
                  /\ StartsWithDashes(lines[k])
                  /\ \A j \in 2..(k - 1) : ~StartsWithDashes(lines[j])
       IN 1 + SumWords(SubSeq(lines, k + 1, Len(lines)))
  ELSE SumWords(lines)

WordLimit == 3000

\* a structure check that accepts a directory without SKILL.md
validateSkillStructureNoSkillCheck(tree) ==
  IF ~existsSync(tree, << "SKILL.md" >>) THEN ValidationResult(<< >>, << >>)
  ELSE ValidationResult(
         << Finding(<< >>, "SKILL.md missing YAML frontmatter", "") >>, << >>)

validateSkillStructure(tree) ==
  IF ~existsSync(tree, << "SKILL.md" >>)
  THEN ValidationResult(
         << Finding(<< >>, "Missing required SKILL.md file", "") >>, << >>)
  ELSE
    LET lines == readFileSync(tree, "SKILL.md")
        close == FrontmatterClose(lines)
        frontmatter == SubSeq(lines, 2, close - 1)
        fmIncludes(text) ==
          \E i \in 1..Len(frontmatter) : Includes(frontmatter[i], text)
        e1 == IF ~StartsWithDashes(lines[1])
              THEN << Finding(<< >>, "SKILL.md missing YAML frontmatter", "") >>
              ELSE << >>
        e2 == IF close # 0 /\ ~fmIncludes("name:")
              THEN << Finding(<< >>, "Frontmatter missing required name field", "") >>
              ELSE << >>
        e3 == IF close # 0 /\ ~fmIncludes("description:")
              THEN << Finding(<< >>, "Frontmatter missing required description field", "") >>
              ELSE << >>
        w1 == IF /\ close # 0
                 /\ fmIncludes("description:")
                 /\ ~fmIncludes("This skill should be used when")
              THEN << Finding(<< >>, "Description should start with This skill should be used when", "") >>
              ELSE << >>
        refs == Flatten([i \in 1..Len(lines) |-> ReferencedFiles(lines[i])])
        w2 == Flatten([i \in 1..Len(refs) |->
                IF ~existsSync(tree, refs[i])
                THEN << Finding(refs[i], "Referenced file does not exist", "") >>
                ELSE << >>])
        w3 == IF BodyWordCount(lines) > WordLimit
              THEN << Finding(<< >>, "SKILL.md body is too long (recommended: <2000)", "") >>
              ELSE << >>
    IN ValidationResult(e1 \o e2 \o e3, w1 \o w2 \o w3)

(***************************************************************************)
(* validate-skill.ts: checkGeneralization.                                 *)
(***************************************************************************)
\* a traversal that takes the files of every extension
RECURSIVE getAllFilesAnyExtension(_, _)
getAllFilesAnyExtension(entries, prefix) ==
  IF entries = << >> THEN << >>
  ELSE LET item == Head(entries)
           fullPath == Append(prefix, item.name)
           here == IF item.isDir THEN getAllFilesAnyExtension(item.children, fullPath)
                   ELSE << [path |-> fullPath, content |-> item.content] >>
       IN here \o getAllFilesAnyExtension(Tail(entries), prefix)

\* getAllFiles: the files below a directory whose name ends in .ts, .js or
\* .md, in traversal order, each with its path relative to the root.
RECURSIVE getAllFiles(_, _)
getAllFiles(entries, prefix) ==
  IF entries = << >> THEN << >>
  ELSE LET item == Head(entries)
           fullPath == Append(prefix, item.name)
           here == IF item.isDir THEN getAllFiles(item.children, fullPath)
                   ELSE IF \/ EndsWith(item.name, ".ts")
                           \/ EndsWith(item.name, ".js")
                           \/ EndsWith(item.name, ".md")
                        THEN << [path |-> fullPath, content |-> item.content] >>
                        ELSE << >>
       IN here \o getAllFiles(Tail(entries), prefix)

\* a suppression by a marker in the window of lines around the first match
ProjectWarningsWindow(file) ==
  LET lines == file.content
      hit(p) == {i \in 1..Len(lines) : ProjectMatch(p, lines[i]) # ""}
      at(p) == CHOOSE i \in hit(p) : \A j \in hit(p) : i <= j
  IN Flatten([p \in PROJECT_SPECIFIC_PATTERNS |->
       IF hit(p) # {} /\ ~isDocumentationContext(lines, at(p) - 1)
       THEN << Finding(file.path, "Contains potentially project-specific content",
                       ProjectMatch(p, lines[at(p)])) >>
       ELSE << >>])

\* The warnings of the project-specific patterns for one file.
ProjectWarnings(file) ==
  LET lines == file.content
      fileIncludes(text) == \E i \in 1..Len(lines) : Includes(lines[i], text)
      first(p) == LET hit == {i \in 1..Len(lines) : ProjectMatch(p, lines[i]) # ""}
                  IN IF hit = {} THEN ""
                     ELSE ProjectMatch(p, lines[CHOOSE i \in hit : \A j \in hit : i <= j])
  IN Flatten([p \in PROJECT_SPECIFIC_PATTERNS |->
       IF first(p) # "" /\ ~fileIncludes("// Example:") /\ ~fileIncludes("<!-- Example")
       THEN << Finding(file.path, "Contains potentially project-specific content", first(p)) >>
       ELSE << >>])

\* pattern.test(content) of a /g pattern whose lastIndex is li: the search
\* starts at lastIndex; a match leaves lastIndex at its end, a failure at 0.
\* Offsets count lines: offset i is the end of line i.
WarningTest(p, lines, li) ==
  LET hit == {i \in (li + 1)..Len(lines) : WarningMatch(p, lines[i])}
  IN IF hit = {} THEN [found |-> FALSE, lastIndex |-> 0]
     ELSE [found |-> TRUE, lastIndex |-> CHOOSE i \in hit : \A j \in hit : i <= j]

\* a scan that stops at the first match, reported or not
SecretErrorsFirstMatchOnly(file, p) ==
  LET lines == file.content
      matches == {i \in 1..Len(lines) : SecretMatch(p, lines[i])}
  IN IF matches # {} /\ ~isDocumentationContext(lines,
          (CHOOSE i \in matches : \A j \in matches : i <= j) - 1)
     THEN << Finding(file.path, SECRET_EXPOSURE_PATTERNS[p], "Use Varlock instead!") >>
     ELSE << >>

\* a scan without the break: one Error for every reported match
SecretErrorsNoBreak(file, p) ==
  LET lines == file.content
  IN Flatten([i \in 1..Len(lines) |->
       IF SecretMatch(p, lines[i]) /\ ~isDocumentationContext(lines, i - 1)
       THEN << Finding(file.path, SECRET_EXPOSURE_PATTERNS[p], "Use Varlock instead!") >>
       ELSE << >>])

\* The Error of secret-exposure pattern p for one file: reported for the
\* first match that is not in documentation context, and only once.
SecretErrors(file, p) ==
  LET lines == file.content
      matches == {i \in 1..Len(lines) : SecretMatch(p, lines[i])}
  IN IF \E i \in matches : ~isDocumentationContext(lines, i - 1)
     THEN << Finding(file.path, SECRET_EXPOSURE_PATTERNS[p], "Use Varlock instead!") >>
     ELSE << >>

\* lines.find(l => l.includes(text)): the first line that includes the text
FindLine(lines, text) ==
  lines[CHOOSE i \in 1..Len(lines) :
          /\ Includes(lines[i], text)
          /\ \A j \in 1..(i - 1) : ~Includes(lines[j], text)]

\* The hardcoded-key Error of a .ts or .js file.
KeyErrors(file) ==
  LET lines == file.content
      keyMatches == Flatten([i \in 1..Len(lines) |-> KeyMatches(lines[i])])
  IN IF \E m \in 1..Len(keyMatches) :
          ~isPlaceholderKey(FindLine(lines, keyMatches[m]))
     THEN << Finding(file.path, "Contains hardcoded API key", "") >>
     ELSE << >>

IsCodeFile(file) ==
  LET name == file.path[Len(file.path)]
  IN EndsWith(name, ".ts") \/ EndsWith(name, ".js")

\* The body of the loop over the files: the findings of one file, and the
\* lastIndex of the two warning patterns after it.
ScanFile(file, lastIndex) ==
  LET lines == file.content
      t1 == WarningTest(1, lines, lastIndex[1])
      t2 == WarningTest(2, lines, lastIndex[2])
      wp == (IF t1.found THEN << Finding(file.path, WARNING_PATTERNS[1], "") >> ELSE << >>)
            \o (IF t2.found THEN << Finding(file.path, WARNING_PATTERNS[2], "") >> ELSE << >>)
      se == Flatten([p \in 1..Len(SECRET_EXPOSURE_PATTERNS) |-> SecretErrors(file, p)])
      ke == IF IsCodeFile(file) THEN KeyErrors(file) ELSE << >>
      fw == IF IsCodeFile(file) /\ \E i \in 1..Len(lines) : FunctionNameMatch(lines[i])
            THEN << Finding(file.path, "Function name contains project-specific term", "") >>
            ELSE << >>
  IN [errors |-> se \o ke,
      warnings |-> ProjectWarnings(file) \o wp \o fw,
      lastIndex |-> << t1.lastIndex, t2.lastIndex >>]

RECURSIVE ScanFiles(_, _, _, _)
ScanFiles(files, lastIndex, errors, warnings) ==
  IF files = << >>
  THEN [errors |-> errors, warnings |-> warnings, lastIndex |-> lastIndex]
  ELSE LET r == ScanFile(Head(files), lastIndex)
       IN ScanFiles(Tail(files), r.lastIndex, errors \o r.errors, warnings \o r.warnings)

checkGeneralization(tree, lastIndex) ==
  ScanFiles(getAllFiles(tree, << >>), lastIndex, << >>, << >>)

(***************************************************************************)
(* validate-skill.ts: checkEnvironmentDocumentation.                       *)
(***************************************************************************)
\* its own getAllFiles: the .ts and .js files only
RECURSIVE getAllCodeFiles(_, _)
getAllCodeFiles(entries, prefix) ==
  IF entries = << >> THEN << >>
  ELSE LET item == Head(entries)
           fullPath == Append(prefix, item.name)
           here == IF item.isDir THEN getAllCodeFiles(item.children, fullPath)
                   ELSE IF EndsWith(item.name, ".ts") \/ EndsWith(item.name, ".js")
                        THEN << [path |-> fullPath, content |-> item.content] >>
                        ELSE << >>
       IN here \o getAllCodeFiles(Tail(entries), prefix)

checkEnvironmentDocumentation(tree) ==
  IF ~existsSync(tree, << "SKILL.md" >>) THEN ValidationResult(<< >>, << >>)
  ELSE
    LET content == readFileSync(tree, "SKILL.md")
        docIncludes(text) == \E i \in 1..Len(content) : Includes(content[i], text)
        files == getAllCodeFiles(tree, << >>)
        refs == Flatten([f \in 1..Len(files) |->
                  Flatten([i \in 1..Len(files[f].content) |->
                    EnvRefs(files[f].content[i])])])
        envVars == Dedup(refs)
        sensitiveVars == SelectSeq(envVars, SensitiveName)
        w1 == Flatten([i \in 1..Len(envVars) |->
                IF ~docIncludes(envVars[i])
                THEN << Finding(<< >>, "Environment variable used but not documented in SKILL.md", envVars[i]) >>
                ELSE << >>])
        hasEnvSchema == existsSync(tree, << ".env.schema" >>)
        mentionsVarlock == docIncludes("varlock")
        w2 == IF sensitiveVars # << >> /\ ~hasEnvSchema /\ ~mentionsVarlock
              THEN << Finding(<< >>, "Skill uses sensitive variables but does not reference Varlock", "") >>
              ELSE << >>
        schemaContent == IF hasEnvSchema THEN readFileSync(tree, ".env.schema") ELSE << >>
        schemaIncludes(text) ==
          \E i \in 1..Len(schemaContent) : Includes(schemaContent[i], text)
        w3 == IF sensitiveVars # << >> /\ hasEnvSchema
              THEN Flatten([i \in 1..Len(sensitiveVars) |->
                     IF schemaIncludes(sensitiveVars[i]) /\ ~schemaIncludes("@sensitive")
                     THEN << Finding(<< >>, ".env.schema may be missing @sensitive annotation", sensitiveVars[i]) >>
                     ELSE << >>])
              ELSE << >>
    IN ValidationResult(<< >>, w1 \o w2 \o w3)

(***************************************************************************)
(* generate-subagent.ts.  A document is a non-empty sequence of lines; a   *)
(* line is its key (the text before the value) and its value, a sequence   *)
(* of tokens: the word when, the double quote, a blank, or other text.     *)
(***************************************************************************)
WHEN == "when"
\* the double-quote character
QUOTE == "dquote"
SPACE == " "

DocLine(key, val) == [key |-> key, val |-> val]
Fence == DocLine("---", << >>)

\* String.prototype.trim
RECURSIVE Trim(_)
Trim(v) ==
  IF v = << >> THEN v
  ELSE IF Head(v) = SPACE THEN Trim(Tail(v))
  ELSE IF v[Len(v)] = SPACE THEN Trim(SubSeq(v, 1, Len(v) - 1))
  ELSE v

\* /"([^"]+)"/ matched at position j of d: the position of the closing
\* quote, or 0 when the pattern does not match there
QuotedEnd(d, j) ==
  IF /\ j \in 1..Len(d)
     /\ d[j] = QUOTE
     /\ \E e \in (j + 2)..Len(d) :
          d[e] = QUOTE /\ \A k \in (j + 1)..(e - 1) : d[k] # QUOTE
  THEN CHOOSE e \in (j + 2)..Len(d) :
         d[e] = QUOTE /\ \A k \in (j + 1)..(e - 1) : d[k] # QUOTE
  ELSE 0

\* the first position from lo at which /"([^"]+)"/ matches, or 0
FirstQuoted(d, lo) ==
  LET hit == {j \in lo..Len(d) : QuotedEnd(d, j) # 0}
  IN IF hit = {} THEN 0 ELSE CHOOSE j \in hit : \A k \in hit : j <= k

\* description.match(/when.*?"([^"]+)"/g): the matched substrings from
\* position pos on, in order; each match starts at a when and ends at the
\* closing quote of the first quoted phrase after it, and the search for
\* the next match resumes after that quote
RECURSIVE TriggerMatches(_, _)
TriggerMatches(d, pos) ==
  LET starts == {s \in pos..Len(d) : d[s] = WHEN /\ FirstQuoted(d, s + 1) # 0}
  IN IF starts = {} THEN << >>
     ELSE LET s == CHOOSE s \in starts : \A k \in starts : s <= k
              e == QuotedEnd(d, FirstQuoted(d, s + 1))
          IN << SubSeq(d, s, e) >> \o TriggerMatches(d, e + 1)

\* t.match(/"([^"]+)"/)[1]: the first quoted phrase of a match
Phrase(t) ==
  LET j == FirstQuoted(t, 1)
  IN SubSeq(t, j + 1, QuotedEnd(t, j) - 1)

\* the trigger phrases pushed for one description
Triggers(description) ==
  LET m == TriggerMatches(description, 1)
  IN [i \in 1..Len(m) |-> Phrase(m[i])]

SkillMetadata(name, description, triggers) ==
  [name |-> name, description |-> description, triggers |-> triggers]

\* the loop over the lines of the front-matter
RECURSIVE ParseLines(_, _)
ParseLines(lines, acc) ==
  IF lines = << >> THEN acc
  ELSE LET l == Head(lines)
           a1 == IF l.key = "name:" /\ l.val # << >>
                 THEN [acc EXCEPT !.name = Trim(l.val)]
                 ELSE acc
           a2 == IF l.key = "description:" /\ l.val # << >>
                 THEN [a1 EXCEPT !.description = Trim(l.val),
                                 !.triggers = @ \o Triggers(Trim(l.val))]
                 ELSE a1
       IN ParseLines(Tail(lines), a2)

\* content.match(/^---\n([\s\S]*?)\n---/) on a document: the index of the
\* closing line, or 0
DocFrontmatterClose(doc) ==
  IF doc[1] = Fence /\ \E k \in 3..Len(doc) : doc[k] = Fence
  THEN CHOOSE k \in 3..Len(doc) :
         doc[k] = Fence /\ \A j \in 3..(k - 1) : doc[j] # Fence
  ELSE 0

NoFrontmatterMessage == "No YAML frontmatter found in SKILL.md"
NoNameMessage == "No name found in SKILL.md frontmatter"

Parsed(error, metadata) == [error |-> error, metadata |-> metadata]

\* a parse that accepts a front-matter without a name
parseSkillMetadataNoNameCheck(doc) ==
  LET close == DocFrontmatterClose(doc)
  IN IF close = 0
     THEN Parsed(NoFrontmatterMessage, SkillMetadata(<< >>, << >>, << >>))
     ELSE Parsed("", ParseLines(SubSeq(doc, 2, close - 1),
                                SkillMetadata(<< >>, << >>, << >>)))

\* parseSkillMetadata: the metadata, or the message of the Error thrown
parseSkillMetadata(doc) ==
  LET close == DocFrontmatterClose(doc)
      m == ParseLines(SubSeq(doc, 2, close - 1), SkillMetadata(<< >>, << >>, << >>))
  IN IF close = 0
     THEN Parsed(NoFrontmatterMessage, SkillMetadata(<< >>, << >>, << >>))
     ELSE IF m.name = << >>
     THEN Parsed(NoNameMessage, SkillMetadata(<< >>, << >>, << >>))
     ELSE Parsed("", m)

\* text.toLowerCase().includes(keyword) for the tokens of the model
TokenIncludes(token, keyword) ==
  CASE token = "Write files" -> keyword = "write"
    [] token = "Create a report" -> keyword = "create"
    [] token = "modify" -> keyword = "modify"
    [] token = "Open the terminal" -> keyword = "terminal"
    [] token = "npm" -> keyword = "npm"
    [] token = "find" -> keyword = "find"
    [] token = "http" -> keyword = "http"
    [] OTHER -> FALSE

\* contentLower.includes(keyword)
ContentIncludes(doc, keyword) ==
  \E i \in 1..Len(doc) : \E j \in 1..Len(doc[i].val) :
    TokenIncludes(doc[i].val[j], keyword)

\* an analysis that forgets Read
analyzeToolRequirementsNoRead(doc) ==
  IF ContentIncludes(doc, "npm") THEN << "Bash" >> ELSE << >>

\* analyzeToolRequirements: requiredTools, in the order of insertion
analyzeToolRequirements(doc) ==
  << "Read" >>
  \o (IF \/ ContentIncludes(doc, "write")
         \/ ContentIncludes(doc, "create file")
         \/ ContentIncludes(doc, "edit")
         \/ ContentIncludes(doc, "modify")
      THEN << "Write", "Edit" >> ELSE << >>)
  \o (IF \/ ContentIncludes(doc, "bash")
         \/ ContentIncludes(doc, "npm")
         \/ ContentIncludes(doc, "command")
         \/ ContentIncludes(doc, "terminal")
         \/ ContentIncludes(doc, "shell")
         \/ ContentIncludes(doc, "run ")
      THEN << "Bash" >> ELSE << >>)
  \o (IF \/ ContentIncludes(doc, "search")
         \/ ContentIncludes(doc, "find")
         \/ ContentIncludes(doc, "grep")
         \/ ContentIncludes(doc, "glob")
      THEN << "Grep", "Glob" >> ELSE << >>)
  \o (IF \/ ContentIncludes(doc, "web")
         \/ ContentIncludes(doc, "fetch")
         \/ ContentIncludes(doc, "url")
         \/ ContentIncludes(doc, "http")
      THEN << "WebFetch" >> ELSE << >>)

\* t.trim() of an entry of the --tools list
TrimTool(t) == IF t = " Edit " THEN "Edit" ELSE t

\* tools that add the analysis of the content to the given list
DetermineToolsMerged(doc, options) ==
  [i \in 1..Len(options.tools) |-> TrimTool(options.tools[i])]
    \o analyzeToolRequirements(doc)

\* the tools of a run: options.tools.split(',').map(trim) when options.tools
\* is a non-empty string, the analysis of the content otherwise
DetermineTools(doc, options) ==
  IF options.tools # << >>
  THEN [i \in 1..Len(options.tools) |-> TrimTool(options.tools[i])]
  ELSE analyzeToolRequirements(doc)

\* the subagent template: its placeholders, in order, between literal text
SubagentTemplate ==
  << "{{name}}", "{{description}}", "{{triggers}}", "{{name}}", "{{tools}}",
     "model: sonnet", "{{name}}", "{{name}}" >>

DefaultTriggers == << << "delegated tasks for this skill" >> >>

\* generateSubagentContent: the template with every placeholder replaced;
\* a piece of the content is the placeholder it came from and the texts
\* put in its place (a quoted phrase is the phrase between two quotes)
generateSubagentContent(metadata, tools, template) ==
  LET triggersStr ==
        IF Len(metadata.triggers) > 0
        THEN [i \in 1..Len(metadata.triggers) |->
                << QUOTE >> \o metadata.triggers[i] \o << QUOTE >>]
        ELSE DefaultTriggers
      piece(t) ==
        CASE t = "{{name}}" -> << metadata.name >>
          [] t = "{{description}}" -> << metadata.description >>
          [] t = "{{triggers}}" -> triggersStr
          [] t = "{{tools}}" -> [i \in 1..Len(tools) |-> << tools[i] >>]
          [] OTHER -> << << t >> >>
  IN [i \in 1..Len(template) |-> [from |-> template[i], texts |-> piece(template[i])]]

\* generateClaudeMdSnippet
generateClaudeMdSnippet(metadata) ==
  [name |-> metadata.name,
   triggers |-> IF Len(metadata.triggers) > 0 THEN metadata.triggers
                ELSE << << "skill-specific tasks" >> >>]

\* a run that writes in preview mode too
WritesFilesAlways(options) == TRUE

\* if (!options.dryRun)
WritesFiles(options) == ~options.dryRun

(***************************************************************************)
(* The state of a run of validate-skill.ts.                                *)
(***************************************************************************)
VARIABLES
  argPath,               \* process.argv[2]: "none", "missing", "file" or "dir"
  tree,                  \* the entries below the validated directory
  pc,                    \* the statement of main() the run is at
  lastIndex,             \* lastIndex of the two /g WARNING_PATTERNS
  structureResult,       \* main's three results
  generalizationResult,
  envDocResult,
  out,                   \* the lines printed so far
  exitCode               \* the process's exit code, -1 while it runs

valVars == << argPath, tree, pc, lastIndex, structureResult, generalizationResult,
              envDocResult, out, exitCode >>

(***************************************************************************)
(* The state of a run of generate-subagent.ts.                             *)
(***************************************************************************)
VARIABLES
  gPath,                 \* what <skill-path> names: "skill dir", "skill file",
                         \* "empty dir" or "missing"
  gDoc,                  \* the content of SKILL.md
  gOptions,              \* the options of generateSubagent
  gTemplateExists,       \* subagent-template.md is installed
  gDirs,                 \* the output directories that exist
  gFiles,                \* the files written below them
  gPc,                   \* the statement the run is at
  gMetadata,             \* generateSubagent's locals
  gTools,
  gContent,
  gError,                \* the message of the Error thrown, "" when none
  gResult,               \* the GenerationResult returned
  gOut,                  \* the lines printed so far
  gExit                  \* the process's exit code, -1 while it runs

genVars == << gPath, gDoc, gOptions, gTemplateExists, gDirs, gFiles, gPc, gMetadata,
              gTools, gContent, gError, gResult, gOut, gExit >>

(***************************************************************************)
(* The state of a run of create-repo.mjs.                                  *)
(***************************************************************************)
VARIABLES
  rEnv,                  \* the world the script runs in: which commands
                         \* succeed, which files exist
  rPc,                   \* the statement the run is at
  rCalls,                \* the commands run so far, in order
  rOut,                  \* the lines printed so far
  rExit                  \* the process's exit code, -1 while it runs

repoVars == << rEnv, rPc, rCalls, rOut, rExit >>

vars == << valVars, genVars, repoVars >>

NoResult == ValidationResult(<< >>, << >>)

Line(kind, item, n) == [kind |-> kind, item |-> item, n |-> n]
Text(kind) == Line(kind, Finding(<< >>, "", ""), 0)

(***************************************************************************)
(* The inputs: four families of directories.                              *)
(***************************************************************************)
\* one file in which markers and a secret-exposure command lie at every distance
WindowTrees ==
  { << File(n, c) >> : n \in {"notes.md", "setup.sh"},
                       c \in SeqsUpTo({PLAIN, MARK, ECHO}, MaxLines) }

\* a documented example: a heading, a fenced block, a command inside it
Plains(n) == [i \in 1..n |-> PLAIN]

FencedTrees ==
  { << File("notes.md",
            << h >> \o Plains(a) \o << FENCE >> \o Plains(b) \o << ECHO >>
                   \o Plains(c) \o << FENCE >>) >> :
      h \in {MARK, PLAIN}, a \in 0..MaxGap, b \in 0..MaxGap, c \in 0..MaxGap }

\* one short file mixing secret literals, placeholders and exposure commands
ShortTrees ==
  { << File(n, c) >> :
      n \in {"run.ts", "lib.js", "notes.md"},
      c \in SeqsUpTo({PLAIN, SKREAL, SKPH, GHPREAL, SKTHROW, ECHOSK, CAT, ECHOMARK},
                     MaxShortLines) }

\* a skill directory: SKILL.md or not, another file or not, at the top or in scripts/
SkillFiles ==
  { File("SKILL.md", c) : c \in SeqsUpTo({FM, NAME, DESC, TODO}, MaxSkillLines) }

OtherFiles ==
  { File("run.ts", c) : c \in { << PLAIN >>, << ECHO >>, << TODO >>, << SKREAL >>,
                                << ENVKEY >>, << HARD, ENVPORT >> } }
  \cup { File("setup.sh", << ECHO >>), File("notes.md", << ACME, TODO >>) }

DirTrees ==
  { << >>, << Dir("scripts", << >>) >> }
  \cup { << o >> : o \in OtherFiles }
  \cup { << s >> : s \in SkillFiles }
  \cup { << s, o >> : s \in SkillFiles, o \in OtherFiles }
  \cup { << o, s >> : s \in SkillFiles, o \in OtherFiles }
  \cup { << s, Dir("scripts", << o >>) >> : s \in SkillFiles, o \in OtherFiles }

\* one file with a project-specific term, a marker or none at every distance
\* before it and after it
LeakTrees ==
  { << File(n, << x >> \o Plains(b) \o << t >> \o Plains(c) \o << y >>) >> :
      n \in {"notes.md", "run.ts"},
      x \in {PLAIN, MARK, EXAMPLE, EXAMPLECODE},
      y \in {PLAIN, MARK, EXAMPLE, EXAMPLECODE},
      t \in {ACME, FNACME},
      b \in 0..MaxLeakGap, c \in 0..MaxLeakGap }

\* a skill with or without SKILL.md, documenting some variables or none, and
\* three files that refer to variables: two sources, one of them in a
\* subdirectory, and a document
EnvTrees ==
  { skill \o << File("run.ts", c1), Dir("scripts", << File("lib.js", c2) >>),
                File("notes.md", c3) >> :
      skill \in { << >> } \cup { << File("SKILL.md", d) >> :
                    d \in { << PLAIN >>, << DOCKEY >>, << DOCPORT >>,
                            << DOCKEY, DOCPORT >>, << VARLOCK >> } },
      c1 \in SeqsUpTo({PLAIN, ENVKEY, ENVPORT}, MaxEnvLines),
      c2 \in SeqsUpTo({PLAIN, ENVKEY, ENVPORT}, MaxEnvLines),
      c3 \in { << PLAIN >>, << ENVPORT >> } }

\* files at three depths, with and without a scanned extension, below
\* directories one of which may bear a name that ends in .md
NestedFiles ==
  { File(n, c) : n \in {"run.ts", "lib.js", "notes.md", "setup.sh"},
                 c \in { << PLAIN >>, << ECHO >> } }

NestedTrees ==
  { << Dir("scripts", << Dir(d, << f >>), g >>), h >> :
      d \in {"lib", "notes.md"}, f \in NestedFiles, g \in NestedFiles, h \in NestedFiles }

\* a SKILL.md, with front-matter or without, whose body runs to thousands
\* of words
LongTrees ==
  { << File("SKILL.md", head \o body) >> :
      head \in { << >>, << FM, NAME, DESC, FM >> },
      body \in SeqsUpTo({PLAIN, KILO, BLOCK}, MaxBodyLines) }

\* a skill with or without SKILL.md and .env.schema, whose source refers to
\* a sensitive variable, to another one, to both or to none
SchemaTrees ==
  { skill \o << File("run.ts", c) >> \o schema :
      skill \in { << >> } \cup { << File("SKILL.md", d) >> :
                    d \in { << PLAIN >>, << VARLOCK >>, << DOCKEY >> } },
      c \in { << PLAIN >>, << ENVKEY >>, << ENVPORT >>, << ENVKEY, ENVPORT >> },
      schema \in { << >> } \cup { << File(".env.schema", sc) >> :
                     sc \in SeqsUpTo({PLAIN, SCHEMAKEY, SCHEMASENS, SCHEMAOTHER},
                                     MaxSchemaLines) } }

Trees ==
  WindowTrees \cup FencedTrees \cup ShortTrees \cup DirTrees \cup LeakTrees
    \cup EnvTrees \cup NestedTrees \cup LongTrees \cup SchemaTrees

NoSnippet == [name |-> << >>, triggers |-> << >>]
NoPath == [dir |-> "", name |-> << >>]
NoMetadata == SkillMetadata(<< >>, << >>, << >>)
NoGenResult ==
  [subagentPath |-> NoPath, claudeMdSnippet |-> NoSnippet,
   metadata |-> NoMetadata, tools |-> << >>]
NoOptions ==
  [output |-> "", tools |-> << >>, model |-> "", skipClaudeMd |-> FALSE,
   dryRun |-> FALSE]

\* no run of generate-subagent.ts
GenIdle ==
  /\ gPath = "missing"
  /\ gDoc = << Fence >>
  /\ gOptions = NoOptions
  /\ gTemplateExists = FALSE
  /\ gDirs = {}
  /\ gFiles = {}
  /\ gPc = "idle"
  /\ gMetadata = NoMetadata
  /\ gTools = << >>
  /\ gContent = << >>
  /\ gError = ""
  /\ gResult = NoGenResult
  /\ gOut = << >>
  /\ gExit = -1

requiredFiles == << "README.md", "LICENSE", "package.json", "skills" >>

\* the world of a run of create-repo.mjs
RepoEnv ==
  [gh : BOOLEAN, auth : BOOLEAN, git : BOOLEAN, commit : BOOLEAN,
   files : { {}, {"README.md"}, {"README.md", "LICENSE", "package.json", "skills"} },
   create : BOOLEAN, seturl : BOOLEAN, push : BOOLEAN,
   api : BOOLEAN, edit : BOOLEAN, apiAgain : BOOLEAN]

\* no run of create-repo.mjs
RepoIdle ==
  /\ rEnv = [gh |-> FALSE, auth |-> FALSE, git |-> FALSE, commit |-> FALSE,
             files |-> {}, create |-> FALSE, seturl |-> FALSE, push |-> FALSE,
             api |-> FALSE, edit |-> FALSE, apiAgain |-> FALSE]
  /\ rPc = "idle"
  /\ rCalls = << >>
  /\ rOut = << >>
  /\ rExit = -1

Init ==
  /\ argPath \in {"none", "missing", "file", "dir"}
  /\ tree \in (IF argPath = "dir" THEN Trees ELSE { << >> })
  /\ pc = "start"
  /\ lastIndex = << 0, 0 >>
  /\ structureResult = NoResult
  /\ generalizationResult = NoResult
  /\ envDocResult = NoResult
  /\ out = << >>
  /\ exitCode = -1
  /\ GenIdle
  /\ RepoIdle

(***************************************************************************)
(* validate-skill.ts: main, statement by statement.                        *)
(***************************************************************************)
\* if (!skillPath) { usage; process.exit(1) }
MainNoPath ==
  /\ pc = "start" /\ argPath = "none"
  /\ out' = << Text("usage") >>
  /\ exitCode' = 1
  /\ pc' = "exit"
  /\ UNCHANGED << argPath, tree, lastIndex, structureResult, generalizationResult,
                  envDocResult >>
  /\ UNCHANGED << genVars, repoVars >>

\* a missing path that is reported and validated all the same
MainPathMissingGoesOn ==
  /\ pc = "start" /\ argPath = "missing"
  /\ out' = << Text("path does not exist") >>
  /\ pc' = "structure"
  /\ UNCHANGED << argPath, tree, lastIndex, structureResult, generalizationResult,
                  envDocResult, exitCode >>
  /\ UNCHANGED << genVars, repoVars >>

\* if (!fs.existsSync(resolvedPath)) { console.error; process.exit(1) }
MainPathMissing ==
  /\ pc = "start" /\ argPath = "missing"
  /\ out' = << Text("path does not exist") >>
  /\ exitCode' = 1
  /\ pc' = "exit"
  /\ UNCHANGED << argPath, tree, lastIndex, structureResult, generalizationResult,
                  envDocResult >>
  /\ UNCHANGED << genVars, repoVars >>

\* console.log('=== Validating Skill ... ===')
MainBegin ==
  /\ pc = "start" /\ argPath \in {"file", "dir"}
  /\ out' = << Text("header") >>
  /\ pc' = "structure"
  /\ UNCHANGED << argPath, tree, lastIndex, structureResult, generalizationResult,
                  envDocResult, exitCode >>
  /\ UNCHANGED << genVars, repoVars >>

\* a run that goes straight to the report when the structure check fails
MainStructureStopsOnError ==
  /\ pc = "structure"
  /\ structureResult' = validateSkillStructure(tree)
  /\ pc' = IF validateSkillStructure(tree).errors # << >> /\ argPath = "dir"
           THEN "report" ELSE "generalization"
  /\ UNCHANGED << argPath, tree, lastIndex, generalizationResult, envDocResult,
                  out, exitCode >>
  /\ UNCHANGED << genVars, repoVars >>

\* const structureResult = validateSkillStructure(resolvedPath)
MainStructure ==
  /\ pc = "structure"
  /\ structureResult' = validateSkillStructure(tree)
  /\ pc' = "generalization"
  /\ UNCHANGED << argPath, tree, lastIndex, generalizationResult, envDocResult,
                  out, exitCode >>
  /\ UNCHANGED << genVars, repoVars >>

\* const generalizationResult = checkGeneralization(resolvedPath)
MainGeneralization ==
  /\ pc = "generalization" /\ argPath = "dir"
  /\ LET r == checkGeneralization(tree, lastIndex)
     IN /\ generalizationResult' = ValidationResult(r.errors, r.warnings)
        /\ lastIndex' = r.lastIndex
  /\ pc' = "envdoc"
  /\ UNCHANGED << argPath, tree, structureResult, envDocResult, out, exitCode >>
  /\ UNCHANGED << genVars, repoVars >>

\* the path is a file: fs.readdirSync throws in getAllFiles, nothing catches it
MainNotADirectory ==
  /\ pc = "generalization" /\ argPath = "file"
  /\ out' = Append(out, Text("uncaught ENOTDIR"))
  /\ exitCode' = 1
  /\ pc' = "crashed"
  /\ UNCHANGED << argPath, tree, lastIndex, structureResult, generalizationResult,
                  envDocResult >>
  /\ UNCHANGED << genVars, repoVars >>

\* const envDocResult = checkEnvironmentDocumentation(resolvedPath)
MainEnvDoc ==
  /\ pc = "envdoc"
  /\ envDocResult' = checkEnvironmentDocumentation(tree)
  /\ pc' = "report"
  /\ UNCHANGED << argPath, tree, lastIndex, structureResult, generalizationResult,
                  out, exitCode >>
  /\ UNCHANGED << genVars, repoVars >>

allErrors ==
  structureResult.errors \o generalizationResult.errors \o envDocResult.errors

allWarnings ==
  structureResult.warnings \o generalizationResult.warnings \o envDocResult.warnings

\* a run that warnings fail too
PassedCountsWarnings == Len(allErrors) + Len(allWarnings) = 0

\* const passed = allErrors.length === 0
Passed == Len(allErrors) = 0

\* a report that prints the Warnings before the Errors
ReportWarningsFirst ==
  (IF Len(allWarnings) > 0
   THEN << Text("WARNINGS:") >>
        \o [i \in 1..Len(allWarnings) |-> Line("warning", allWarnings[i], 0)]
        \o << Text("") >>
   ELSE << >>)
  \o (IF Len(allErrors) > 0
      THEN << Text("ERRORS:") >>
           \o [i \in 1..Len(allErrors) |-> Line("error", allErrors[i], 0)]
           \o << Text("") >>
      ELSE << >>)
  \o << Text(IF Passed THEN "Result: PASSED" ELSE "Result: FAILED"),
        Line("Errors:", Finding(<< >>, "", ""), Len(allErrors)),
        Line("Warnings:", Finding(<< >>, "", ""), Len(allWarnings)) >>

\* what main prints once the three checks ran
Report ==
  (IF Len(allErrors) > 0
   THEN << Text("ERRORS:") >>
        \o [i \in 1..Len(allErrors) |-> Line("error", allErrors[i], 0)]
        \o << Text("") >>
   ELSE << >>)
  \o (IF Len(allWarnings) > 0
      THEN << Text("WARNINGS:") >>
           \o [i \in 1..Len(allWarnings) |-> Line("warning", allWarnings[i], 0)]
           \o << Text("") >>
      ELSE << >>)
  \o << Text(IF Passed THEN "Result: PASSED" ELSE "Result: FAILED"),
        Line("Errors:", Finding(<< >>, "", ""), Len(allErrors)),
        Line("Warnings:", Finding(<< >>, "", ""), Len(allWarnings)) >>

\* print the results; process.exit(passed ? 0 : 1)
MainReport ==
  /\ pc = "report"
  /\ out' = out \o Report
  /\ exitCode' = IF Passed THEN 0 ELSE 1
  /\ pc' = "exit"
  /\ UNCHANGED << argPath, tree, lastIndex, structureResult, generalizationResult,
                  envDocResult >>
  /\ UNCHANGED << genVars, repoVars >>

Next ==
  \/ MainNoPath
  \/ MainPathMissing
  \/ MainBegin
  \/ MainStructure
  \/ MainGeneralization
  \/ MainNotADirectory
  \/ MainEnvDoc
  \/ MainReport

Spec == Init /\ [][Next]_vars

(***************************************************************************)
(* The inputs of generate-subagent.ts: three families.                     *)
(***************************************************************************)
NameDemo == DocLine("name:", << "demo" >>)

\* a well-formed document whose description is any sequence of tokens
DescDocs ==
  { << Fence, NameDemo, DocLine("description:", d), Fence >> :
      d \in SeqsUpTo({WHEN, QUOTE, "a", "b"}, MaxDesc) }

\* any short sequence of lines: with and without delimiters, name and value
ShapeDocs ==
  SeqsUpTo({ Fence, NameDemo, DocLine("name:", << SPACE >>), DocLine("name:", << >>),
             DocLine("description:", << WHEN, QUOTE, "a", QUOTE >>),
             DocLine("", << "npm" >>) },
           MaxDocLines)

\* a complete document with one body line, for every combination of options
OptionDocs ==
  { << Fence, DocLine("name:", << SPACE, "demo", SPACE >>),
       DocLine("description:", << "a", WHEN, QUOTE, "a", QUOTE, SPACE >>),
       Fence, DocLine("", body) >> :
      body \in { << "plain" >>, << "Write files", "npm" >>, << "find" >>, << "http" >>,
                 << "Create a report" >>, << "modify" >>, << "Open the terminal" >> } }

Options ==
  [output : {"", "out"},
   tools : { << >>, << "Bash" >>, << "Read", " Edit " >> },
   model : {"", "opus"},
   skipClaudeMd : BOOLEAN,
   dryRun : BOOLEAN]

InitGen ==
  /\ RepoIdle
  /\ argPath = "none" /\ tree = << >> /\ pc = "idle" /\ lastIndex = << 0, 0 >>
  /\ structureResult = NoResult /\ generalizationResult = NoResult
  /\ envDocResult = NoResult /\ out = << >> /\ exitCode = -1
  /\ \/ /\ gDoc \in DescDocs
        /\ gPath = "skill dir"
        /\ gOptions = NoOptions
        /\ gTemplateExists = TRUE
        /\ gDirs = {}
     \/ /\ gDoc \in ShapeDocs
        /\ gPath \in {"skill dir", "skill file"}
        /\ gOptions \in {[NoOptions EXCEPT !.dryRun = b] : b \in BOOLEAN}
        /\ gTemplateExists = TRUE
        /\ gDirs = {"agents"}
     \/ /\ gDoc \in OptionDocs
        /\ gPath \in {"skill dir", "skill file", "empty dir", "missing"}
        /\ gOptions \in Options
        /\ gTemplateExists \in BOOLEAN
        /\ gDirs \in SUBSET {"agents", "out"}
  /\ gFiles = {}
  /\ gPc = "start"
  /\ gMetadata = NoMetadata
  /\ gTools = << >>
  /\ gContent = << >>
  /\ gError = ""
  /\ gResult = NoGenResult
  /\ gOut = << >>
  /\ gExit = -1

(***************************************************************************)
(* generate-subagent.ts: generateSubagent called from the command line,    *)
(* statement by statement.                                                 *)
(***************************************************************************)
Say(kind, body, snippet) == [kind |-> kind, body |-> body, snippet |-> snippet]

\* throw new Error(message)
Throw(message) ==
  /\ gError' = message
  /\ gPc' = "thrown"

\* resolve the path; if (!existsSync(skillMdPath)) throw
GenResolve ==
  /\ gPc = "start"
  /\ IF gPath = "missing"
     THEN Throw("SKILL.md not found")
     ELSE gPc' = "parse" /\ UNCHANGED gError
  /\ UNCHANGED << valVars, repoVars, gPath, gDoc, gOptions, gTemplateExists, gDirs, gFiles,
                  gMetadata, gTools, gContent, gResult, gOut, gExit >>

\* const content = readFileSync(skillMdPath); const metadata = parseSkillMetadata(content)
GenParse ==
  /\ gPc = "parse"
  /\ IF gPath = "empty dir"
     THEN Throw("EISDIR: illegal operation on a directory, read") /\ UNCHANGED gMetadata
     ELSE LET r == parseSkillMetadata(gDoc)
          IN IF r.error # ""
             THEN Throw(r.error) /\ UNCHANGED gMetadata
             ELSE gMetadata' = r.metadata /\ gPc' = "tools" /\ UNCHANGED gError
  /\ UNCHANGED << valVars, repoVars, gPath, gDoc, gOptions, gTemplateExists, gDirs, gFiles,
                  gTools, gContent, gResult, gOut, gExit >>

\* determine the tools
GenTools ==
  /\ gPc = "tools"
  /\ gTools' = DetermineTools(gDoc, gOptions)
  /\ gPc' = "template"
  /\ UNCHANGED << valVars, repoVars, gPath, gDoc, gOptions, gTemplateExists, gDirs, gFiles,
                  gMetadata, gContent, gError, gResult, gOut, gExit >>

\* a run that creates the output directory before it looks for the template
GenTemplateAfterMkdir ==
  /\ gPc = "template"
  /\ gDirs' = gDirs \cup {IF gOptions.output # "" THEN gOptions.output ELSE "agents"}
  /\ IF ~gTemplateExists
     THEN Throw("Subagent template not found") /\ UNCHANGED gContent
     ELSE /\ gContent' = generateSubagentContent(gMetadata, gTools, SubagentTemplate)
          /\ gPc' = "emit"
          /\ UNCHANGED gError
  /\ UNCHANGED << valVars, repoVars, gPath, gDoc, gOptions, gTemplateExists, gFiles,
                  gMetadata, gTools, gResult, gOut, gExit >>

\* if (!existsSync(templatePath)) throw; generate the content
GenTemplate ==
  /\ gPc = "template"
  /\ IF ~gTemplateExists
     THEN Throw("Subagent template not found") /\ UNCHANGED gContent
     ELSE /\ gContent' = generateSubagentContent(gMetadata, gTools, SubagentTemplate)
          /\ gPc' = "emit"
          /\ UNCHANGED gError
  /\ UNCHANGED << valVars, repoVars, gPath, gDoc, gOptions, gTemplateExists, gDirs, gFiles,
                  gMetadata, gTools, gResult, gOut, gExit >>

outputDir == IF gOptions.output # "" THEN gOptions.output ELSE "agents"

subagentPath == [dir |-> outputDir, name |-> gMetadata.name]

GenerationResult ==
  [subagentPath |-> subagentPath,
   claudeMdSnippet |-> generateClaudeMdSnippet(gMetadata),
   metadata |-> gMetadata,
   tools |-> gTools]

\* not a dry run: create the directory, write the file, print, return
GenWrite ==
  /\ gPc = "emit"
  /\ WritesFiles(gOptions)
  /\ gDirs' = gDirs \cup {outputDir}
  /\ gFiles' = {f \in gFiles : f.path # subagentPath}
                 \cup {[path |-> subagentPath, content |-> gContent]}
  /\ gOut' = gOut
       \o << Say("Generated subagent", << >>, NoSnippet) >>
       \o (IF ~gOptions.skipClaudeMd
           THEN << Say("Add to your CLAUDE.md", << >>, generateClaudeMdSnippet(gMetadata)) >>
           ELSE << >>)
  /\ gResult' = GenerationResult
  /\ gPc' = "returned"
  /\ UNCHANGED << valVars, repoVars, gPath, gDoc, gOptions, gTemplateExists, gMetadata, gTools,
                  gContent, gError, gExit >>

\* a preview that works the tools out anew, whatever --tools says
GenPreviewOwnTools ==
  /\ gPc = "emit"
  /\ ~WritesFiles(gOptions)
  /\ gOut' = gOut
       \o << Say("Dry run - no files created", << >>, NoSnippet),
             Say("Subagent content",
                 generateSubagentContent(gMetadata, analyzeToolRequirements(gDoc),
                                         SubagentTemplate),
                 NoSnippet),
             Say("CLAUDE.md snippet", << >>, generateClaudeMdSnippet(gMetadata)) >>
  /\ gResult' = [GenerationResult EXCEPT !.tools = analyzeToolRequirements(gDoc)]
  /\ gPc' = "returned"
  /\ UNCHANGED << valVars, repoVars, gPath, gDoc, gOptions, gTemplateExists, gDirs, gFiles,
                  gMetadata, gTools, gContent, gError, gExit >>

\* a dry run: print the preview, return
GenPreview ==
  /\ gPc = "emit"
  /\ ~WritesFiles(gOptions)
  /\ gOut' = gOut
       \o << Say("Dry run - no files created", << >>, NoSnippet),
             Say("Subagent content", gContent, NoSnippet),
             Say("CLAUDE.md snippet", << >>, generateClaudeMdSnippet(gMetadata)) >>
  /\ gResult' = GenerationResult
  /\ gPc' = "returned"
  /\ UNCHANGED << valVars, repoVars, gPath, gDoc, gOptions, gTemplateExists, gDirs, gFiles,
                  gMetadata, gTools, gContent, gError, gExit >>

\* catch (error) { console.error(error.message); process.exit(1) }
CliCatch ==
  /\ gPc = "thrown"
  /\ gOut' = Append(gOut, Say(gError, << >>, NoSnippet))
  /\ gExit' = 1
  /\ gPc' = "exit"
  /\ UNCHANGED << valVars, repoVars, gPath, gDoc, gOptions, gTemplateExists, gDirs, gFiles,
                  gMetadata, gTools, gContent, gError, gResult >>

\* generateSubagent returned: the script ends
CliEnd ==
  /\ gPc = "returned"
  /\ gExit' = 0
  /\ gPc' = "exit"
  /\ UNCHANGED << valVars, repoVars, gPath, gDoc, gOptions, gTemplateExists, gDirs, gFiles,
                  gMetadata, gTools, gContent, gError, gResult, gOut >>

NextGen ==
  \/ GenResolve
  \/ GenParse
  \/ GenTools
  \/ GenTemplate
  \/ GenWrite
  \/ GenPreview
  \/ CliCatch
  \/ CliEnd

SpecGen == InitGen /\ [][NextGen]_vars

(***************************************************************************)
(* create-repo.mjs, statement by statement.                                *)
(***************************************************************************)
Out(level, text) == [level |-> level, text |-> text]

\* log, success, error, warn, info: print the lines
Log(ls) == rOut' = rOut \o ls

\* run(cmd): the command is executed
Run(cmds) == rCalls' = rCalls \o cmds

\* process.exit(1)
Fail == rExit' = 1 /\ rPc' = "exit"

InitRepo ==
  /\ argPath = "none" /\ tree = << >> /\ pc = "idle" /\ lastIndex = << 0, 0 >>
  /\ structureResult = NoResult /\ generalizationResult = NoResult
  /\ envDocResult = NoResult /\ out = << >> /\ exitCode = -1
  /\ GenIdle
  /\ rEnv \in RepoEnv
  /\ rPc = "gh"
  /\ rCalls = << >>
  /\ rOut = << Out("log", "Creating GitHub Repository"), Out("log", "Pre-flight Checks") >>
  /\ rExit = -1

\* Check gh CLI
RepoCheckGh ==
  /\ rPc = "gh"
  /\ Run(<< "gh --version" >>)
  /\ IF rEnv.gh
     THEN /\ Log(<< Out("success", "gh CLI installed") >>)
          /\ rPc' = "auth" /\ UNCHANGED rExit
     ELSE /\ Log(<< Out("error", "gh CLI not installed"),
                    Out("info", "Install: brew install gh && gh auth login") >>)
          /\ Fail
  /\ UNCHANGED << valVars, genVars, rEnv >>

\* Check gh auth
RepoCheckAuth ==
  /\ rPc = "auth"
  /\ Run(<< "gh auth status" >>)
  /\ IF rEnv.auth
     THEN /\ Log(<< Out("success", "gh CLI authenticated") >>)
          /\ rPc' = "git" /\ UNCHANGED rExit
     ELSE /\ Log(<< Out("error", "gh CLI not authenticated"),
                    Out("info", "Run: gh auth login") >>)
          /\ Fail
  /\ UNCHANGED << valVars, genVars, rEnv >>

\* Check git repo: existsSync('.git'), no command is run
RepoCheckGit ==
  /\ rPc = "git"
  /\ IF rEnv.git
     THEN /\ Log(<< Out("success", "Git repository exists") >>)
          /\ rPc' = "commits" /\ UNCHANGED rExit
     ELSE /\ Log(<< Out("error", "Not a git repository"), Out("info", "Run: git init") >>)
          /\ Fail
  /\ UNCHANGED << valVars, genVars, rEnv, rCalls >>

\* a check for commits that reports the failure and goes on
RepoCheckCommitsNoExit ==
  /\ rPc = "commits"
  /\ Run(<< "git rev-parse HEAD" >>)
  /\ Log(IF rEnv.commit THEN << Out("success", "Has commits") >>
         ELSE << Out("error", "No commits found") >>)
  /\ rPc' = "files"
  /\ UNCHANGED << valVars, genVars, rEnv, rExit >>

\* Check for commits
RepoCheckCommits ==
  /\ rPc = "commits"
  /\ Run(<< "git rev-parse HEAD" >>)
  /\ IF rEnv.commit
     THEN /\ Log(<< Out("success", "Has commits") >>)
          /\ rPc' = "files" /\ UNCHANGED rExit
     ELSE /\ Log(<< Out("error", "No commits found"),
                    Out("info", "Run: git add -A && git commit -m Initial commit") >>)
          /\ Fail
  /\ UNCHANGED << valVars, genVars, rEnv >>

\* Required files check: a line for each file, never a failure
RepoRequiredFiles ==
  /\ rPc = "files"
  /\ Log([i \in 1..Len(requiredFiles) |->
            IF requiredFiles[i] \in rEnv.files
            THEN Out("success", requiredFiles[i])
            ELSE Out("warn", requiredFiles[i])])
  /\ rPc' = "create"
  /\ UNCHANGED << valVars, genVars, rEnv, rCalls, rExit >>

\* Create repository: gh repo create ... --source . --push
RepoCreate ==
  /\ rPc = "create"
  /\ Run(<< "gh repo create" >>)
  /\ IF rEnv.create
     THEN /\ Log(<< Out("log", "Creating Repository"),
                    Out("log", "Creating GitHub repository..."),
                    Out("success", "Repository created and pushed") >>)
          /\ rPc' = "topics"
     ELSE /\ Log(<< Out("log", "Creating Repository"),
                    Out("log", "Creating GitHub repository..."),
                    Out("warn", "Repository may already exist, trying to push...") >>)
          /\ rPc' = "push"
  /\ UNCHANGED << valVars, genVars, rEnv, rExit >>

\* a fallback that reports the failed push and goes on
RepoFallbackPushGoesOn ==
  /\ rPc = "push"
  /\ Run(<< "git remote set-url origin", "git push -u origin main" >>)
  /\ Log(IF rEnv.push THEN << Out("success", "Pushed to existing repository") >>
         ELSE << Out("error", "Failed to push. Check repository settings.") >>)
  /\ rPc' = "topics"
  /\ UNCHANGED << valVars, genVars, rEnv, rExit >>

\* the catch of the creation: set the remote (errors ignored), push
RepoFallbackPush ==
  /\ rPc = "push"
  /\ Run(<< "git remote set-url origin", "git push -u origin main" >>)
  /\ IF rEnv.push
     THEN /\ Log(<< Out("success", "Pushed to existing repository") >>)
          /\ rPc' = "topics" /\ UNCHANGED rExit
     ELSE /\ Log(<< Out("error", "Failed to push. Check repository settings.") >>)
          /\ Fail
  /\ UNCHANGED << valVars, genVars, rEnv >>

\* Add topics: look the user up, edit the repository; a failure of either
\* is a warning
RepoTopics ==
  /\ rPc = "topics"
  /\ Run(IF rEnv.api THEN << "gh api user", "gh repo edit" >> ELSE << "gh api user" >>)
  /\ Log(<< Out("log", "Adding topics for discoverability..."),
            IF rEnv.api /\ rEnv.edit
            THEN Out("success", "Added topics")
            ELSE Out("warn", "Could not add all topics (some may be invalid)") >>)
  /\ rPc' = "summary"
  /\ UNCHANGED << valVars, genVars, rEnv, rExit >>

\* Final output: the banner, the user lookup (outside any try), the URL
\* lines and the next steps; an exception of the lookup ends the process
RepoSummary ==
  /\ rPc = "summary"
  /\ Run(<< "gh api user" >>)
  /\ IF rEnv.apiAgain
     THEN /\ Log(<< Out("log", "Repository created successfully!"),
                    Out("log", "URL:"), Out("log", "Clone:"), Out("log", "Install:"),
                    Out("log", "Next Steps:") >>)
          /\ rExit' = 0
          /\ rPc' = "exit"
     ELSE /\ Log(<< Out("log", "Repository created successfully!"),
                    Out("error", "uncaught exception") >>)
          /\ rExit' = 1
          /\ rPc' = "crashed"
  /\ UNCHANGED << valVars, genVars, rEnv >>

NextRepo ==
  \/ RepoCheckGh
  \/ RepoCheckAuth
  \/ RepoCheckGit
  \/ RepoCheckCommits
  \/ RepoRequiredFiles
  \/ RepoCreate
  \/ RepoFallbackPush
  \/ RepoTopics
  \/ RepoSummary

SpecRepo == InitRepo /\ [][NextRepo]_vars

(***************************************************************************)
(* What the claims speak of.                                               *)
(***************************************************************************)
\* the run printed its results and exited
Finished == pc = "exit" /\ argPath = "dir"

\* every regular file below the root, whatever its name, with its path
RECURSIVE AllRegularFiles(_, _)
AllRegularFiles(entries, prefix) ==
  IF entries = << >> THEN {}
  ELSE LET item == Head(entries)
           fullPath == Append(prefix, item.name)
       IN (IF item.isDir THEN AllRegularFiles(item.children, fullPath)
           ELSE { [path |-> fullPath, content |-> item.content] })
          \cup AllRegularFiles(Tail(entries), prefix)

FileName(f) == f.path[Len(f.path)]

ScannedExtension(f) == FileName(f) \in {"SKILL.md", "notes.md", "run.ts", "lib.js"}

CodeExtension(f) == FileName(f) \in {"run.ts", "lib.js"}

\* the lines (from 1) of a file on which secret-exposure pattern p matches
Occurrences(f, p) == {i \in 1..Len(f.content) : SecretMatch(p, f.content[i])}

\* a documentation marker stands on one of the lines lo .. hi
MarkerIn(lines, lo, hi) ==
  \E j \in lo..hi : j \in 1..Len(lines) /\ DOCUMENTATION_CONTEXT_PATTERNS(lines[j])

\* line i lies inside a fenced block: an odd number of fences stand before it
InFence(lines, i) ==
  /\ lines[i] # FENCE
  /\ Cardinality({j \in 1..(i - 1) : lines[j] = FENCE}) % 2 = 1

\* the Errors collected for a file with a message
ErrorsOf(f, msg) ==
  {i \in 1..Len(allErrors) : allErrors[i].file = f.path /\ allErrors[i].msg = msg}

\* the secret-exposure Errors collected for a file
SecretErrorsOf(f) ==
  {i \in 1..Len(allErrors) :
     /\ allErrors[i].file = f.path
     /\ \E p \in 1..Len(SECRET_EXPOSURE_PATTERNS) :
          allErrors[i].msg = SECRET_EXPOSURE_PATTERNS[p]}

Printed(kind, finding) == \E j \in 1..Len(out) : out[j] = Line(kind, finding, 0)

(***************************************************************************)
(* C1. A run on an existing path exits with code 1 if and only if at least *)
(* one Error was collected by the three checks; Warnings alone give exit   *)
(* code 0, and every Warning is printed.                                   *)
(***************************************************************************)
C1_ExitOneIffError ==
  (exitCode # -1 /\ argPath \in {"file", "dir"}) =>
    /\ exitCode \in {0, 1}
    /\ exitCode = 1 <=>
         Len(structureResult.errors) + Len(generalizationResult.errors)
           + Len(envDocResult.errors) > 0
    /\ \A i \in 1..Len(allWarnings) : Printed("warning", allWarnings[i])

\* a run that collected Warnings and no Error has exited with code 0
C1_Witness ==
  /\ Finished
  /\ exitCode = 0
  /\ Len(allWarnings) > 1
  /\ Len(allErrors) = 0

(***************************************************************************)
(* C2, as claimed. Every file under the validated directory with a         *)
(* secret-exposure match whose window of lines holds no documentation      *)
(* marker gets an Error, and the run exits non-zero.                       *)
(***************************************************************************)
C2_AnyFileExposureIsError ==
  Finished =>
    \A f \in AllRegularFiles(tree, << >>) :
      \A p \in 1..Len(SECRET_EXPOSURE_PATTERNS) :
        (\E i \in Occurrences(f, p) : ~MarkerIn(f.content, i - 5, i + 5)) =>
          /\ ErrorsOf(f, SECRET_EXPOSURE_PATTERNS[p]) # {}
          /\ exitCode = 1

(***************************************************************************)
(* C2, amended. Every file with a name ending in .md, .ts or .js with a    *)
(* match of secret-exposure pattern p on line i, no documentation marker   *)
(* standing on the lines i-5 .. i+4, gets the Error of p, and the run      *)
(* exits with code 1.                                                      *)
(***************************************************************************)
C2_ScannedFileExposureIsError ==
  Finished =>
    \A f \in AllRegularFiles(tree, << >>) :
      \A p \in 1..Len(SECRET_EXPOSURE_PATTERNS) :
        (/\ ScannedExtension(f)
         /\ \E i \in Occurrences(f, p) : ~MarkerIn(f.content, i - 5, i + 4)) =>
          /\ ErrorsOf(f, SECRET_EXPOSURE_PATTERNS[p]) # {}
          /\ exitCode = 1

\* a scanned file whose first match is suppressed by a marker and whose
\* later match, out of the marker's reach, is reported
C2_Witness ==
  /\ Finished
  /\ \E f \in AllRegularFiles(tree, << >>) :
       /\ ScannedExtension(f)
       /\ \E i, k \in Occurrences(f, 1) :
            /\ i < k
            /\ MarkerIn(f.content, i - 5, i + 4)
            /\ ~MarkerIn(f.content, k - 5, k + 4)
       /\ ErrorsOf(f, SECRET_EXPOSURE_PATTERNS[1]) # {}
  /\ exitCode = 1

(***************************************************************************)
(* C3, as claimed. A secret-exposure match inside a fenced block that a    *)
(* marker precedes is never reported, however many lines lie between the   *)
(* marker and the match: a file all of whose matches of a pattern are such *)
(* gets no Error of that pattern.                                          *)
(***************************************************************************)
C3_MarkedExampleNeverError ==
  Finished =>
    \A f \in AllRegularFiles(tree, << >>) :
      \A p \in 1..Len(SECRET_EXPOSURE_PATTERNS) :
        (/\ ScannedExtension(f)
         /\ Occurrences(f, p) # {}
         /\ \A i \in Occurrences(f, p) :
              InFence(f.content, i) /\ MarkerIn(f.content, 1, i - 1)) =>
          ErrorsOf(f, SECRET_EXPOSURE_PATTERNS[p]) = {}

(***************************************************************************)
(* C3, amended. A secret-exposure match on line i is not reported when a   *)
(* marker stands on one of the lines i-5 .. i+4 (at most 5 lines before    *)
(* the match): a file all of whose matches of a pattern are such gets no   *)
(* Error of that pattern.                                                  *)
(***************************************************************************)
C3_MarkerInWindowNoError ==
  Finished =>
    \A f \in AllRegularFiles(tree, << >>) :
      \A p \in 1..Len(SECRET_EXPOSURE_PATTERNS) :
        (/\ Occurrences(f, p) # {}
         /\ \A i \in Occurrences(f, p) : MarkerIn(f.content, i - 5, i + 4)) =>
          ErrorsOf(f, SECRET_EXPOSURE_PATTERNS[p]) = {}

\* a fenced example whose only marker stands exactly 5 lines before the
\* match was scanned and got no Error
C3_Witness ==
  /\ Finished
  /\ \E f \in AllRegularFiles(tree, << >>) :
       /\ ScannedExtension(f)
       /\ \E i \in Occurrences(f, 1) :
            /\ InFence(f.content, i)
            /\ i > 5
            /\ DOCUMENTATION_CONTEXT_PATTERNS(f.content[i - 5])
            /\ ~MarkerIn(f.content, i - 4, i + 5)
       /\ SecretErrorsOf(f) = {}

(***************************************************************************)
(* C4, as claimed. A directory that is empty, or holds no file with a      *)
(* scanned extension, gives no finding at all and exit code 0.             *)
(***************************************************************************)
NoScannedFile == \A f \in AllRegularFiles(tree, << >>) : ~ScannedExtension(f)

C4_EmptyDirectoryPasses ==
  (Finished /\ NoScannedFile) =>
    /\ allErrors = << >>
    /\ allWarnings = << >>
    /\ exitCode = 0

(***************************************************************************)
(* C4, amended. A directory that is empty, or holds no file with a scanned *)
(* extension, gives exactly one finding, the Error that SKILL.md is        *)
(* missing, no Warning, and exit code 1.                                   *)
(***************************************************************************)
C4_EmptyDirectoryMissingSkill ==
  (Finished /\ NoScannedFile) =>
    /\ allErrors = << Finding(<< >>, "Missing required SKILL.md file", "") >>
    /\ allWarnings = << >>
    /\ exitCode = 1

\* the run on the empty directory has exited
C4_Witness == Finished /\ tree = << >> /\ exitCode = 1

(***************************************************************************)
(* C8, as claimed. In a .ts or .js file a quoted secret-literal prefix is  *)
(* suppressed only by a placeholder on its own line: a file with such a    *)
(* prefix on a line that matches no placeholder pattern gets the Error     *)
(* "Contains hardcoded API key", whatever its other lines hold.            *)
(***************************************************************************)
C8_KeyOnPlainLineIsError ==
  Finished =>
    \A f \in AllRegularFiles(tree, << >>) :
      (/\ CodeExtension(f)
       /\ \E i \in 1..Len(f.content) :
            /\ KeyMatches(f.content[i]) # << >>
            /\ ~PLACEHOLDER_KEY_PATTERNS(f.content[i])) =>
        ErrorsOf(f, "Contains hardcoded API key") # {}

(***************************************************************************)
(* C9. Secret-exposure Errors are reported at most once per pattern and    *)
(* file; a file whose only secret-exposure text is the line                *)
(* echo $LINEAR_API_KEY, once or several times, at least once outside any  *)
(* documentation context, contributes exactly one Error.                   *)
(***************************************************************************)
C9_OncePerPatternAndFile ==
  Finished =>
    \A f \in AllRegularFiles(tree, << >>) :
      /\ \A p \in 1..Len(SECRET_EXPOSURE_PATTERNS) :
           Cardinality(ErrorsOf(f, SECRET_EXPOSURE_PATTERNS[p])) <= 1
      /\ (/\ ScannedExtension(f)
          /\ \A p \in 1..Len(SECRET_EXPOSURE_PATTERNS) :
               \A i \in Occurrences(f, p) : f.content[i] = ECHO
          /\ \E i \in Occurrences(f, 1) : ~MarkerIn(f.content, i - 5, i + 4)) =>
           Cardinality(SecretErrorsOf(f)) = 1

\* a file with three unmarked repetitions of the command got one Error
C9_Witness ==
  /\ Finished
  /\ \E f \in AllRegularFiles(tree, << >>) :
       /\ ScannedExtension(f)
       /\ Cardinality({i \in Occurrences(f, 1) :
                         ~MarkerIn(f.content, i - 5, i + 5)}) >= 3
       /\ Cardinality(SecretErrorsOf(f)) = 1

(***************************************************************************)
(* What the claims about generate-subagent.ts speak of.                    *)
(***************************************************************************)
\* generateSubagent returned a result
Generated == gPc \in {"returned", "exit"} /\ gError = ""

\* the document exists and was read and parsed
WasParsed == gPath \in {"skill dir", "skill file"} /\ gPc \notin {"idle", "start", "parse"}

\* the front-matter block: the lines after the opening --- line up to the
\* first later --- line that leaves at least one line between the two
BlockEnd(doc) ==
  IF doc[1] = Fence /\ \E k \in 3..Len(doc) : doc[k] = Fence
  THEN CHOOSE k \in 3..Len(doc) : doc[k] = Fence /\ \A j \in 3..(k - 1) : doc[j] # Fence
  ELSE 0

BlockLines(doc) == {i \in 2..(BlockEnd(doc) - 1) : TRUE}

NoBlock(doc) == BlockEnd(doc) = 0

\* no line of the block gives name: a value that is not blank
NoNameValue(doc) ==
  \A i \in BlockLines(doc) :
    doc[i].key = "name:" => \A j \in 1..Len(doc[i].val) : doc[i].val[j] = SPACE

\* the positions of the double quotes of a description, in order
QuotePositions(d) ==
  SelectSeq([i \in 1..Len(d) |-> i], LAMBDA i : d[i] = QUOTE)

\* the word when, once, followed by N >= 1 double-quoted phrases: every
\* quote stands after the when, the quotes pair up, no phrase is empty
WhenThenPhrases(d) ==
  LET q == QuotePositions(d)
  IN /\ Cardinality({i \in 1..Len(d) : d[i] = WHEN}) = 1
     /\ Len(q) >= 2 /\ Len(q) % 2 = 0
     /\ \A i \in 1..Len(d) : d[i] = WHEN => i < q[1]
     /\ \A k \in 1..(Len(q) \div 2) : q[2 * k] > q[2 * k - 1] + 1

\* those phrases, in order
QuotedPhrases(d) ==
  LET q == QuotePositions(d)
  IN [k \in 1..(Len(q) \div 2) |-> SubSeq(d, q[2 * k - 1] + 1, q[2 * k] - 1)]

\* the description lines of the block
DescriptionLines(doc) == {i \in BlockLines(doc) : doc[i].key = "description:"}

\* the texts put in the place of a placeholder of the template
TextsFor(content, placeholder) ==
  UNION { {content[i].texts[j] : j \in 1..Len(content[i].texts)} :
            i \in {i \in 1..Len(content) : content[i].from = placeholder} }

TextsInOrder(content, placeholder) ==
  content[CHOOSE i \in 1..Len(content) : content[i].from = placeholder].texts

(***************************************************************************)
(* C5, as claimed. For a document with a name and one description line in  *)
(* which the word when is followed by N >= 1 double-quoted phrases, the    *)
(* parsed trigger list is exactly those phrases, in order, and the         *)
(* generated artifact lists exactly them.                                  *)
(***************************************************************************)
C5_TriggersRoundTrip ==
  (Generated /\ gPc = "returned") =>
    \A i \in DescriptionLines(gDoc) :
      (DescriptionLines(gDoc) = {i} /\ WhenThenPhrases(gDoc[i].val)) =>
        /\ gResult.metadata.triggers = QuotedPhrases(gDoc[i].val)
        /\ TextsInOrder(gContent, "{{triggers}}") =
             [k \in 1..Len(QuotedPhrases(gDoc[i].val)) |->
                << QUOTE >> \o QuotedPhrases(gDoc[i].val)[k] \o << QUOTE >>]

(***************************************************************************)
(* C6. Generation fails with a descriptive Error when the document has no  *)
(* front-matter block delimited by --- lines or the block gives name: no   *)
(* non-blank value: nothing is returned or written, and from the command   *)
(* line the message is printed and the process exits with code 1.          *)
(***************************************************************************)
C6_NoFrontmatterOrNameFails ==
  (WasParsed /\ (NoBlock(gDoc) \/ NoNameValue(gDoc))) =>
    /\ gPc \in {"thrown", "exit"}
    /\ gError = (IF NoBlock(gDoc) THEN NoFrontmatterMessage ELSE NoNameMessage)
    /\ gResult = NoGenResult
    /\ gFiles = {}
    /\ gPc = "exit" =>
         /\ gExit = 1
         /\ \E j \in 1..Len(gOut) : gOut[j].kind = gError

\* a run on a document whose block holds only a blank name: has exited
C6_Witness ==
  /\ gPc = "exit"
  /\ gExit = 1
  /\ ~NoBlock(gDoc)
  /\ NoNameValue(gDoc)
  /\ \E i \in BlockLines(gDoc) : gDoc[i] = DocLine("name:", << SPACE >>)
  /\ gError = NoNameMessage

(***************************************************************************)
(* C7. With options.dryRun no step of generateSubagent changes the file    *)
(* system: no directory is created and no file written.                    *)
(***************************************************************************)
C7_DryRunNoMutation ==
  [][gOptions.dryRun => (gDirs' = gDirs /\ gFiles' = gFiles)]_vars

\* a dry run into a directory that does not exist printed its preview and returned
C7_Witness ==
  /\ gPc = "returned"
  /\ gOptions.dryRun
  /\ gOptions.output = "out" /\ gOptions.tools # << >> /\ gOptions.skipClaudeMd
  /\ "out" \notin gDirs
  /\ gFiles = {}
  /\ \E j \in 1..Len(gOut) : gOut[j].kind = "Subagent content" /\ gOut[j].body = gContent

(***************************************************************************)
(* C10, as claimed. The tool list of every generated subagent, in the      *)
(* result and in the place of {{tools}}, contains Read, for every document *)
(* and every combination of options, --tools included.                     *)
(***************************************************************************)
C10_ReadAlwaysListed ==
  Generated =>
    /\ \E i \in 1..Len(gResult.tools) : gResult.tools[i] = "Read"
    /\ << "Read" >> \in TextsFor(gContent, "{{tools}}")

(***************************************************************************)
(* C10, amended. The tool list of every subagent generated without a       *)
(* --tools value (absent or empty) contains Read, in the result and in the *)
(* place of {{tools}}; with a --tools value the list is that value's.      *)
(***************************************************************************)
C10_ReadListedWithoutOverride ==
  (Generated /\ gOptions.tools = << >>) =>
    /\ \E i \in 1..Len(gResult.tools) : gResult.tools[i] = "Read"
    /\ << "Read" >> \in TextsFor(gContent, "{{tools}}")

\* a subagent generated without --tools from a document with keywords
C10_Witness ==
  /\ Generated
  /\ gOptions.tools = << >>
  /\ gResult.tools = << "Read", "Write", "Edit", "Bash" >>

(***************************************************************************)
(* What the later claims about validate-skill.ts speak of.                 *)
(***************************************************************************)
\* the findings printed as lines of a kind, in the order of printing
PrintedItems(kind) ==
  LET sel == SelectSeq(out, LAMBDA l : l.kind = kind)
  IN [i \in 1..Len(sel) |-> sel[i].item]

SummaryKinds == {"Result: PASSED", "Result: FAILED", "Errors:", "Warnings:"}

\* the place of a file in the traversal of the directory
TraversalRank(path) ==
  LET files == getAllFiles(tree, << >>)
  IN CHOOSE k \in 1..Len(files) : files[k].path = path

\* the findings of a list name their files in traversal order
InTraversalOrder(findings) ==
  \A i, j \in 1..Len(findings) :
    i < j => TraversalRank(findings[i].file) <= TraversalRank(findings[j].file)

(***************************************************************************)
(* C11. The output is ordered: every Error line is printed before every    *)
(* Warning line, the result and count lines after both; the Errors, and    *)
(* the Warnings, appear in the order structure check, generalization check *)
(* (its files in traversal order), environment-documentation check.        *)
(***************************************************************************)
C11_OutputOrdered ==
  /\ \A i, j \in 1..Len(out) :
       /\ (out[i].kind = "error" /\ out[j].kind = "warning") => i < j
       /\ (out[i].kind \in {"error", "warning"} /\ out[j].kind \in SummaryKinds) => i < j
  /\ Finished =>
       /\ PrintedItems("error") =
            structureResult.errors \o generalizationResult.errors \o envDocResult.errors
       /\ PrintedItems("warning") =
            structureResult.warnings \o generalizationResult.warnings
              \o envDocResult.warnings
       /\ InTraversalOrder(generalizationResult.errors)
       /\ InTraversalOrder(generalizationResult.warnings)
       /\ \E j \in 1..Len(out) : out[j].kind \in {"Result: PASSED", "Result: FAILED"}
       /\ out[Len(out)].kind = "Warnings:" /\ out[Len(out) - 1].kind = "Errors:"

\* a run printed an Error of the structure check and Warnings of the
\* generalization check for two files
C11_Witness ==
  /\ Finished
  /\ structureResult.errors # << >>
  /\ \E i, j \in 1..Len(generalizationResult.warnings) :
       /\ i < j
       /\ generalizationResult.warnings[i].file # generalizationResult.warnings[j].file
  /\ \E i, j \in 1..Len(out) : out[i].kind = "error" /\ out[j].kind = "warning"

\* the Warnings collected for a file with a message
WarningsOf(f, msg) ==
  {i \in 1..Len(allWarnings) : allWarnings[i].file = f.path /\ allWarnings[i].msg = msg}

\* the lines (from 1) of a file on which project-specific pattern p matches
Leaks(f, p) == {i \in 1..Len(f.content) : ProjectMatch(p, f.content[i]) # ""}

LeakMessage == "Contains potentially project-specific content"

\* the file holds one of the two example comments, on any line
HasExampleComment(f) ==
  \E i \in 1..Len(f.content) :
    Includes(f.content[i], "// Example:") \/ Includes(f.content[i], "<!-- Example")

PassText == << "gh CLI installed", "gh CLI authenticated", "Git repository exists",
               "Has commits" >>
FailText == << "gh CLI not installed", "gh CLI not authenticated", "Not a git repository",
               "No commits found" >>
Remedy == << "Install: brew install gh && gh auth login", "Run: gh auth login",
             "Run: git init", "Run: git add -A && git commit -m Initial commit" >>

Holds(k) ==
  CASE k = 1 -> rEnv.gh
    [] k = 2 -> rEnv.auth
    [] k = 3 -> rEnv.git
    [] k = 4 -> rEnv.commit

PreflightFails == \E k \in 1..4 : ~Holds(k)

FirstFailure == CHOOSE k \in 1..4 : ~Holds(k) /\ \A j \in 1..(k - 1) : Holds(j)

\* the command of each check; the third check runs none
CheckCommands(k) ==
  SubSeq(<< "gh --version", "gh auth status", "git rev-parse HEAD" >>, 1,
         IF k >= 4 THEN 3 ELSE IF k >= 2 THEN 2 ELSE 1)

Invoked(cmd) == \E i \in 1..Len(rCalls) : rCalls[i] = cmd

(***************************************************************************)
(* C13. When a pre-flight prerequisite fails (gh not installed, gh not     *)
(* authenticated, no .git, no commit), gh repo create, git push and gh     *)
(* repo edit are never invoked; the checks run in that order, the first    *)
(* failure prints its remediation and ends the run with exit code 1.       *)
(***************************************************************************)
C13_PreflightFailureStopsRun ==
  (rPc # "idle" /\ PreflightFails) =>
    /\ ~Invoked("gh repo create")
    /\ ~Invoked("git push -u origin main")
    /\ ~Invoked("gh repo edit")
    /\ rPc \in {"gh", "auth", "git", "commits", "exit"}
    /\ rPc = "exit" =>
         /\ rExit = 1
         /\ rCalls = CheckCommands(FirstFailure)
         /\ SubSeq(rOut, 3, Len(rOut)) =
              [i \in 1..(FirstFailure - 1) |-> Out("success", PassText[i])]
                \o << Out("error", FailText[FirstFailure]),
                      Out("info", Remedy[FirstFailure]) >>

\* a run in a repository without a commit, where creation would have
\* succeeded, has exited
C13_Witness ==
  /\ rPc = "exit"
  /\ rExit = 1
  /\ rEnv.gh /\ rEnv.auth /\ rEnv.git /\ ~rEnv.commit
  /\ rEnv.create /\ rEnv.push
  /\ rOut[Len(rOut)] = Out("info", Remedy[4])

(***************************************************************************)
(* What the claims about SKILL.md speak of.                                *)
(***************************************************************************)
HasSkillMd == \E i \in 1..Len(tree) : tree[i].name = "SKILL.md" /\ ~tree[i].isDir

SkillMd == tree[CHOOSE i \in 1..Len(tree) : tree[i].name = "SKILL.md"].content

\* the line that closes the front-matter block of SKILL.md: the first line
\* of dashes from line 3 on, the file opening with a line of dashes; 0 when
\* the file has no such block
SkillBlockEnd ==
  IF SkillMd[1] = FM /\ \E k \in 3..Len(SkillMd) : SkillMd[k] = FM
  THEN CHOOSE k \in 3..Len(SkillMd) :
         SkillMd[k] = FM /\ \A j \in 3..(k - 1) : SkillMd[j] # FM
  ELSE 0

\* a line of the block holds the key
BlockHasKey(line) == \E i \in 2..(SkillBlockEnd - 1) : SkillMd[i] = line

(***************************************************************************)
(* C14, as claimed. The run reports an Error of the structure check, and   *)
(* exits with code 1, whenever SKILL.md is missing, has no front-matter    *)
(* block, or has a block without a name key or without a description key.  *)
(***************************************************************************)
C14_MissingFrontmatterIsError ==
  (Finished /\ ( \/ ~HasSkillMd
                 \/ SkillBlockEnd = 0
                 \/ ~BlockHasKey(NAME)
                 \/ ~(BlockHasKey(DESC) \/ BlockHasKey(DESCSHORT)) )) =>
    /\ structureResult.errors # << >>
    /\ exitCode = 1

\* the variable is referred to as process.env.NAME in a .ts or .js file
Referenced(varName) ==
  \E f \in AllRegularFiles(tree, << >>) :
    /\ CodeExtension(f)
    /\ \E i \in 1..Len(f.content) :
         \E j \in 1..Len(EnvRefs(f.content[i])) : EnvRefs(f.content[i])[j] = varName

\* SKILL.md holds the name of the variable
Documented(varName) == \E i \in 1..Len(SkillMd) : Includes(SkillMd[i], varName)

UndocumentedMessage == "Environment variable used but not documented in SKILL.md"

\* the Warnings that a variable is not documented
UndocumentedWarnings(varName) ==
  {i \in 1..Len(allWarnings) :
     allWarnings[i].msg = UndocumentedMessage /\ allWarnings[i].arg = varName}

VarNames == {"API_KEY", "PORT"}

(***************************************************************************)
(* C15, as claimed. Every variable referred to as process.env.NAME in a    *)
(* .ts or .js file under the directory and not documented in SKILL.md gets *)
(* exactly one Warning naming it, every other variable none.               *)
(***************************************************************************)
C15_UndocumentedVariableWarnedOnce ==
  Finished =>
    \A v \in VarNames :
      Cardinality(UndocumentedWarnings(v)) =
        (IF Referenced(v) /\ ~(HasSkillMd /\ Documented(v)) THEN 1 ELSE 0)

(***************************************************************************)
(* C15, amended. When SKILL.md exists, every variable referred to as       *)
(* process.env.NAME in a .ts or .js file under the directory whose name    *)
(* SKILL.md does not hold gets exactly one Warning naming it, however      *)
(* often and in however many files it is referred to, and every other      *)
(* variable none; without SKILL.md no such Warning is reported. The check  *)
(* reports no Error, so these Warnings never change the exit code.         *)
(***************************************************************************)
C15_UndocumentedWarnedOnceGivenSkillMd ==
  Finished =>
    /\ \A v \in VarNames :
         Cardinality(UndocumentedWarnings(v)) =
           (IF HasSkillMd /\ Referenced(v) /\ ~Documented(v) THEN 1 ELSE 0)
    /\ envDocResult.errors = << >>
    /\ exitCode = 1 <=>
         Len(structureResult.errors) + Len(generalizationResult.errors) > 0

\* a skill whose two sources both refer to API_KEY, one of them twice, and
\* to PORT, SKILL.md documenting PORT only, got the one Warning
C15_Witness ==
  /\ Finished
  /\ HasSkillMd
  /\ Documented("PORT") /\ ~Documented("API_KEY")
  /\ \E f, g \in AllRegularFiles(tree, << >>) :
       /\ f.path # g.path
       /\ f.content = << ENVKEY, ENVKEY >>
       /\ g.content = << ENVKEY, ENVPORT >>
  /\ Cardinality(UndocumentedWarnings("API_KEY")) = 1
  /\ UndocumentedWarnings("PORT") = {}

\* the generalization check has run
Scanned == argPath = "dir" /\ pc \in {"envdoc", "report", "exit"}

GeneralizationFindings ==
  generalizationResult.errors \o generalizationResult.warnings

(***************************************************************************)
(* C16. The content scan visits every file, at any depth, whose name ends  *)
(* in .md, .ts or .js exactly once and no other file: the list of files it *)
(* reads holds each such file once, with its content, and nothing else;    *)
(* every finding names such a file; a visited file that holds only the     *)
(* undocumented command echo $LINEAR_API_KEY has exactly one finding.      *)
(***************************************************************************)
C16_ScanVisitsScannedFilesOnce ==
  Scanned =>
    LET files == getAllFiles(tree, << >>)
        wanted == {f \in AllRegularFiles(tree, << >>) : ScannedExtension(f)}
    IN /\ {files[i] : i \in 1..Len(files)} = wanted
       /\ \A i, j \in 1..Len(files) : files[i].path = files[j].path => i = j
       /\ \A k \in 1..Len(GeneralizationFindings) :
            \E f \in wanted : f.path = GeneralizationFindings[k].file
       /\ \A f \in wanted :
            f.content = << ECHO >> =>
              Cardinality({k \in 1..Len(GeneralizationFindings) :
                             GeneralizationFindings[k].file = f.path}) = 1

\* a scan of a tree with the command in a .ts file three directories deep,
\* below a directory named notes.md, and in a .sh file at the top
C16_Witness ==
  /\ Scanned
  /\ \E f, g \in AllRegularFiles(tree, << >>) :
       /\ f.path = << "scripts", "notes.md", "run.ts" >> /\ f.content = << ECHO >>
       /\ g.path = << "setup.sh" >> /\ g.content = << ECHO >>
  /\ \E k \in 1..Len(generalizationResult.errors) :
       generalizationResult.errors[k].file = << "scripts", "notes.md", "run.ts" >>

(***************************************************************************)
(* C17. A run with no path argument, or with a path that does not exist,   *)
(* exits with code 1 before any of the three checks runs: it never reaches *)
(* a check, and prints the usage or the path error and nothing else, no    *)
(* finding, no result, no count.                                           *)
(***************************************************************************)
C17_NoPathExitsBeforeChecks ==
  (argPath \in {"none", "missing"} /\ pc # "idle") =>
    /\ pc \in {"start", "exit"}
    /\ structureResult = NoResult
    /\ generalizationResult = NoResult
    /\ envDocResult = NoResult
    /\ \A j \in 1..Len(out) : out[j].kind \in {"usage", "path does not exist"}
    /\ pc = "exit" =>
         /\ exitCode = 1
         /\ out = << Text(IF argPath = "none" THEN "usage" ELSE "path does not exist") >>

\* the run on a path that does not exist has exited
C17_Witness ==
  /\ argPath = "missing"
  /\ pc = "exit"
  /\ exitCode = 1
  /\ out = << Text("path does not exist") >>

\* the limit the documentation and the Warning's own text recommend
RecommendedWords == 2000

\* the whitespace-separated words of SKILL.md after its front-matter block
BodyWords == SumWords(SubSeq(SkillMd, SkillBlockEnd + 1, Len(SkillMd)))

OversizedWarnings ==
  {i \in 1..Len(allWarnings) :
     allWarnings[i].msg = "SKILL.md body is too long (recommended: <2000)"}

(***************************************************************************)
(* C18, as claimed. The oversized-document Warning is reported for every   *)
(* SKILL.md whose body, the content after the front-matter block, exceeds  *)
(* 2000 whitespace-separated words and for no body within that limit; the  *)
(* Warning never fails the run.                                            *)
(***************************************************************************)
C18_OversizedAboveRecommendedLimit ==
  (Finished /\ HasSkillMd) =>
    /\ OversizedWarnings # {} <=> BodyWords > RecommendedWords
    /\ exitCode = 1 <=> Len(allErrors) > 0

(***************************************************************************)
(* C19, as claimed. isDocumentationContext(content, i) is true exactly     *)
(* when a marker stands on the matched line, on one of the 5 lines before  *)
(* it or on one of the 5 lines after it: a scanned file with a single      *)
(* match of a secret-exposure pattern, on line i, gets no Error of that    *)
(* pattern if and only if a marker stands on one of the lines i-5 .. i+5.  *)
(***************************************************************************)
C19_WindowFiveBeforeAndAfter ==
  Finished =>
    \A f \in AllRegularFiles(tree, << >>) :
      \A p \in 1..Len(SECRET_EXPOSURE_PATTERNS) :
        \A i \in Occurrences(f, p) :
          (ScannedExtension(f) /\ Occurrences(f, p) = {i}) =>
            (ErrorsOf(f, SECRET_EXPOSURE_PATTERNS[p]) = {}
               <=> MarkerIn(f.content, i - 5, i + 5))

(***************************************************************************)
(* C20, as claimed. The Warnings for hardcoded and for TODO/FIXME/HACK     *)
(* depend on the content of the file alone: every scanned file that holds  *)
(* one of the terms gets the Warning of that term, and no other file does, *)
(* whichever files were scanned before it and wherever the term stood in   *)
(* them.                                                                   *)
(***************************************************************************)
C20_TermWarningByContentAlone ==
  Finished =>
    \A f \in AllRegularFiles(tree, << >>) :
      \A p \in 1..Len(WARNING_PATTERNS) :
        ScannedExtension(f) =>
          (WarningsOf(f, WARNING_PATTERNS[p]) # {}
             <=> \E i \in 1..Len(f.content) : WarningMatch(p, f.content[i]))

\* the generated tool list holds the tool
HasTool(t) == \E i \in 1..Len(gResult.tools) : gResult.tools[i] = t

\* the document holds one of the keywords, in any case
DocHolds(keywords) == \E k \in keywords : ContentIncludes(gDoc, k)

(***************************************************************************)
(* C21, as claimed. Without a --tools value the tool list follows the      *)
(* documented keyword table: Read always; Write and Edit iff the document  *)
(* holds write, create or edit; Bash iff bash, npm or command; Grep and    *)
(* Glob iff search, find or grep; WebFetch iff web, fetch or url.          *)
(***************************************************************************)
C21_ToolsFollowDocumentedTable ==
  (Generated /\ gOptions.tools = << >>) =>
    /\ HasTool("Read")
    /\ HasTool("Write") <=> DocHolds({"write", "create", "edit"})
    /\ HasTool("Edit") <=> DocHolds({"write", "create", "edit"})
    /\ HasTool("Bash") <=> DocHolds({"bash", "npm", "command"})
    /\ HasTool("Grep") <=> DocHolds({"search", "find", "grep"})
    /\ HasTool("Glob") <=> DocHolds({"search", "find", "grep"})
    /\ HasTool("WebFetch") <=> DocHolds({"web", "fetch", "url"})

\* the entries of the --tools values of the model, trimmed, in order
GivenTools ==
  CASE gOptions.tools = << "Bash" >> -> << "Bash" >>
    [] gOptions.tools = << "Read", " Edit " >> -> << "Read", "Edit" >>
    [] OTHER -> << >>

(***************************************************************************)
(* C22. With a non-empty --tools value the generated tool list, in the     *)
(* result and in the place of {{tools}}, is exactly the comma-separated    *)
(* entries of the value, each trimmed, in the given order; the keywords of *)
(* the document add nothing to it.                                         *)
(***************************************************************************)
C22_ToolsOverrideIsExact ==
  (Generated /\ gOptions.tools # << >>) =>
    /\ gResult.tools = GivenTools
    /\ TextsInOrder(gContent, "{{tools}}") =
         [i \in 1..Len(GivenTools) |-> << GivenTools[i] >>]

\* a subagent generated with --tools "Read, Edit " from a document that
\* holds the keywords of Write, Edit and Bash
C22_Witness ==
  /\ Generated
  /\ gOptions.tools = << "Read", " Edit " >>
  /\ DocHolds({"write"}) /\ DocHolds({"npm"})
  /\ gResult.tools = << "Read", "Edit" >>

\* a line of the output carries the CLAUDE.md snippet
SnippetEmitted == \E j \in 1..Len(gOut) : gOut[j].snippet # NoSnippet

(***************************************************************************)
(* C23, as claimed. With --skip-claude-md the run emits no CLAUDE.md       *)
(* snippet, with --dry-run and without it.                                 *)
(***************************************************************************)
C23_SkipClaudeMdEmitsNoSnippet ==
  (gPc # "idle" /\ gOptions.skipClaudeMd) => ~SnippetEmitted

\* the model the generated artifact names
ModelOf(content) ==
  IF \E i \in 1..Len(content) : content[i].texts = << << "model: sonnet" >> >>
  THEN "sonnet"
  ELSE "other"

(***************************************************************************)
(* C24, as claimed. The artifact names the model given with --model, and   *)
(* sonnet when none is given, so that two runs that differ only in --model *)
(* give artifacts that differ in their model.                              *)
(***************************************************************************)
C24_ModelOptionSelectsModel ==
  Generated =>
    ModelOf(gContent) = (IF gOptions.model = "" THEN "sonnet" ELSE gOptions.model)

\* how often a command was run
Times(cmd) == Cardinality({i \in 1..Len(rCalls) : rCalls[i] = cmd})

\* the place of the first run of a command
FirstRun(cmd) == CHOOSE i \in 1..Len(rCalls) : rCalls[i] = cmd

(***************************************************************************)
(* C25. create-repo does not retry: gh repo create is run at most once,    *)
(* git push -u origin main at most once and only after gh repo create has  *)
(* failed, and a failure of that push ends the run with exit code 1,       *)
(* nothing being run after it.                                             *)
(***************************************************************************)
C25_NoRetry ==
  /\ Times("gh repo create") <= 1
  /\ Times("git push -u origin main") <= 1
  /\ Invoked("git push -u origin main") =>
       /\ Invoked("gh repo create")
       /\ FirstRun("gh repo create") < FirstRun("git push -u origin main")
       /\ ~rEnv.create
  /\ (Invoked("git push -u origin main") /\ ~rEnv.push) =>
       /\ rPc = "exit"
       /\ rExit = 1
       /\ rCalls[Len(rCalls)] = "git push -u origin main"
       /\ rOut[Len(rOut)] = Out("error", "Failed to push. Check repository settings.")

\* a run whose creation and whose push both failed has exited
C25_Witness ==
  /\ rPc = "exit"
  /\ rExit = 1
  /\ Times("gh repo create") = 1
  /\ Times("git push -u origin main") = 1
  /\ ~rEnv.create /\ ~rEnv.push

\* the repository was created, or the fallback push succeeded
Published ==
  /\ rPc \in {"topics", "summary", "exit", "crashed"}
  /\ ~PreflightFails
  /\ rEnv.create \/ rEnv.push

RepoSaid(text) == \E j \in 1..Len(rOut) : rOut[j].text = text

(***************************************************************************)
(* C26, as claimed. Once the repository was created or the fallback push   *)
(* succeeded, the run reaches the final summary and ends normally: it does *)
(* not end otherwise than with exit code 0 and the banner, the URL and the *)
(* next steps printed, whatever the later commands (the topics, the user   *)
(* lookups) return.                                                        *)
(***************************************************************************)
C26_SummaryAlwaysReached ==
  (Published /\ rExit # -1) =>
    /\ rPc = "exit"
    /\ rExit = 0
    /\ RepoSaid("Repository created successfully!")
    /\ RepoSaid("URL:")
    /\ RepoSaid("Next Steps:")

OptionsButDryRun == [gOptions EXCEPT !.dryRun = FALSE]

ExpectedError ==
  IF gPath = "missing" THEN "SKILL.md not found"
  ELSE IF gPath = "empty dir" THEN "EISDIR: illegal operation on a directory, read"
  ELSE IF parseSkillMetadata(gDoc).error # "" THEN parseSkillMetadata(gDoc).error
  ELSE IF ~gTemplateExists THEN "Subagent template not found"
  ELSE ""

ExpectedTools == DetermineTools(gDoc, OptionsButDryRun)

ExpectedContent ==
  generateSubagentContent(parseSkillMetadata(gDoc).metadata, ExpectedTools,
                          SubagentTemplate)

ExpectedResult ==
  [subagentPath |->
     [dir |-> IF OptionsButDryRun.output # "" THEN OptionsButDryRun.output ELSE "agents",
      name |-> parseSkillMetadata(gDoc).metadata.name],
   claudeMdSnippet |-> generateClaudeMdSnippet(parseSkillMetadata(gDoc).metadata),
   metadata |-> parseSkillMetadata(gDoc).metadata,
   tools |-> ExpectedTools]

ResultPrinted ==
  \E j \in 1..Len(out) : out[j].kind \in {"Result: PASSED", "Result: FAILED"}

(***************************************************************************)
(* C29, as claimed. On every existing path the three checks all run and    *)
(* the run ends with the report, an Error of the structure check           *)
(* notwithstanding.                                                        *)
(***************************************************************************)
C29_AllChecksRunOnExistingPath ==
  (argPath \in {"file", "dir"} /\ exitCode # -1) =>
    /\ pc = "exit"
    /\ ResultPrinted

(***************************************************************************)
(* C29, amended. On every existing directory the three checks all run and  *)
(* the run ends with the report: an Error of the structure check, a        *)
(* missing SKILL.md included, does not keep the content scan from          *)
(* reporting, and printing, the secret-exposure Error of a scanned file    *)
(* with an undocumented match and the hardcoded-key Error of a .ts or .js  *)
(* file whose lines with a key prefix match no placeholder.                *)
(***************************************************************************)
C29_AllChecksRunOnDirectory ==
  (argPath = "dir" /\ exitCode # -1) =>
    /\ pc = "exit"
    /\ ResultPrinted
    /\ \A f \in AllRegularFiles(tree, << >>) :
         /\ \A p \in 1..Len(SECRET_EXPOSURE_PATTERNS) :
              (/\ ScannedExtension(f)
               /\ \E i \in Occurrences(f, p) : ~MarkerIn(f.content, i - 5, i + 4)) =>
                \E k \in ErrorsOf(f, SECRET_EXPOSURE_PATTERNS[p]) :
                  Printed("error", allErrors[k])
         /\ (/\ CodeExtension(f)
             /\ \E i \in 1..Len(f.content) : KeyMatches(f.content[i]) # << >>
             /\ \A i \in 1..Len(f.content) :
                  KeyMatches(f.content[i]) # << >> =>
                    ~PLACEHOLDER_KEY_PATTERNS(f.content[i])) =>
              \E k \in ErrorsOf(f, "Contains hardcoded API key") :
                Printed("error", allErrors[k])

\* a run on a directory without SKILL.md reported the missing file and the
\* key in run.ts
C29_Witness ==
  /\ Finished
  /\ ~HasSkillMd
  /\ structureResult.errors # << >>
  /\ \E f \in AllRegularFiles(tree, << >>) :
       /\ f.content = << SKREAL >>
       /\ ErrorsOf(f, "Contains hardcoded API key") # {}
  /\ Len(allErrors) = 2

HasSchema == \E i \in 1..Len(tree) : tree[i].name = ".env.schema" /\ ~tree[i].isDir

Schema == tree[CHOOSE i \in 1..Len(tree) : tree[i].name = ".env.schema"].content

\* .env.schema names the variable
SchemaNames(varName) == \E i \in 1..Len(Schema) : Includes(Schema[i], varName)

\* an entry of the variable in .env.schema carries the annotation
EntryAnnotated(varName) ==
  \E i \in 1..Len(Schema) :
    Includes(Schema[i], varName) /\ Includes(Schema[i], "@sensitive")

MentionsVarlock ==
  HasSkillMd /\ \E i \in 1..Len(SkillMd) : Includes(SkillMd[i], "varlock")

VarlockWarnings ==
  {i \in 1..Len(allWarnings) :
     allWarnings[i].msg = "Skill uses sensitive variables but does not reference Varlock"}

AnnotationWarnings(varName) ==
  {i \in 1..Len(allWarnings) :
     /\ allWarnings[i].msg = ".env.schema may be missing @sensitive annotation"
     /\ allWarnings[i].arg = varName}

(***************************************************************************)
(* C30, as claimed. When a variable with a sensitive-looking name is       *)
(* referred to, the Warning that the skill does not reference Varlock is   *)
(* reported iff there is no .env.schema and SKILL.md does not mention      *)
(* varlock, and the Warning that the annotation may be missing is reported *)
(* for the variable iff .env.schema exists, names the variable, and the    *)
(* variable's entry carries no @sensitive annotation.                      *)
(***************************************************************************)
C30_VarlockWarnings ==
  (Finished /\ Referenced("API_KEY")) =>
    /\ VarlockWarnings # {} <=> (~HasSchema /\ ~MentionsVarlock)
    /\ AnnotationWarnings("API_KEY") # {}
         <=> (HasSchema /\ SchemaNames("API_KEY") /\ ~EntryAnnotated("API_KEY"))

====
